---- MODULE Spec2Model ----
(***************************************************************************)
(* Model of the video-editor server: the single-slot job queue of the      *)
(* transform routes (enqueueJob), the request handlers that validate and   *)
(* admit transform requests, the engine (ffmpeg) completion events, and    *)
(* the age-based cleanup of the uploads/ and processed/ directories.       *)
(*                                                                         *)
(* One action is one turn of the Node.js event loop: a callback together   *)
(* with the promise reactions (microtasks) it triggers.  No other callback *)
(* can run in between, so the states of the model are exactly the states   *)
(* another handler can observe.                                            *)
(***************************************************************************)
EXTENDS Integers, Naturals, Sequences, FiniteSets, TLC

(***************************************************************************)
(* Bounds of the model (not program constants).                            *)
(***************************************************************************)
NumReq == 3          \* transform requests received in one behaviour
MaxUploads == 2      \* files stored by POST /upload in one behaviour
MaxTicks == 4        \* clock advances in one behaviour
MaxSweepJobs == 1    \* transform requests in one behaviour of SweepSpec
MaxStoreJobs == 2    \* transform requests in one behaviour of StoreSpec
MaxStoreTicks == 1   \* clock advances in one behaviour of StoreSpec
MaxStoreUploads == 1 \* files stored by POST /upload in StoreSpec
MaxTextLen == 3      \* characters of an overlay text
MaxTime == 5         \* largest startTime / endTime / probed duration (s)
MaxMergeInputs == 3  \* filenames of a merge request
MaxBytes == 11       \* largest file size (stat.size) and byte offset

(***************************************************************************)
(* Program constants.                                                      *)
(***************************************************************************)
MAX_CONCURRENT_JOBS == 1
CLEANUP_INTERVAL_MS == 5 * 60 * 1000
MAX_FILE_AGE_MS == 15 * 60 * 1000
STARTUP_SWEEP_MS == 60 * 1000

VARIABLES
    activeJobs,    \* let activeJobs
    jobQueue,      \* const jobQueue = []  (the queued run closures, by job)
    phase,         \* per request: where its handler / job promise stands
    invoked,       \* per request: how many times its jobFn was called
    resp,          \* per request: the HTTP responses written to res
    startLog,      \* jobs in the order of the "Job started" log line
    waitLog,       \* jobs in the order of the "Job queued" log line
    nreq,          \* number of transform requests received so far
    nup,           \* number of files stored by POST /upload so far
    uploads,       \* uploads/ directory: name -> [mtime, isFile, size]
    processed,     \* processed/ directory: name -> [mtime, isFile, size]
    now,           \* Date.now()
    nticks,        \* clock advances so far
    startupDone,   \* the setTimeout(60 s) sweep has fired
    nextInterval,  \* due time of the next setInterval sweep
    lastSweep,     \* what the last sweep callback saw and did
    served,        \* the last GET (stream / export) and the response to it
    built,         \* the last engine command a route handler assembled
    stderrLog      \* per request: the engine stderr lines written to the log

vars == <<activeJobs, jobQueue, phase, invoked, resp, startLog, waitLog, nreq,
          nup, uploads, processed, now, nticks, startupDone, nextInterval,
          lastSweep, served, built, stderrLog>>

qvars == <<activeJobs, jobQueue, phase, invoked, resp, startLog, waitLog, nreq>>
tvars == <<now, nticks, startupDone, nextInterval, lastSweep>>
ovars == <<served, built, stderrLog>>

Jobs == 1..NumReq

(***************************************************************************)
(* File names.  Stored names are uuid based, hence fresh: the k-th upload  *)
(* is <<"up", k>> and the output of request j is <<"out", j>>.             *)
(***************************************************************************)
UploadName(k) == <<"up", k>>
OutName(j) == <<"out", j>>
NoName == <<"none", 0>>        \* filename missing from the body (falsy)
GhostName == <<"ghost", 0>>    \* a name no directory ever holds

ListName(j) == <<"list", j>>   \* list_<uuid>.txt of the legacy merge route

FileEntry(t, n) == [mtime |-> t, isFile |-> TRUE, size |-> n]

existsSync(dir, name) == name \in DOMAIN dir

(***************************************************************************)
(* POST /filter: the lookup filterMap[filter].  The object literal has the *)
(* twelve own keys; a lookup by any other key falls through to             *)
(* Object.prototype, whose members are truthy functions.                   *)
(***************************************************************************)
FilterNames == {"grayscale", "sepia", "blur", "sharpen", "brightness",
                "contrast", "saturate", "vignette", "vintage", "negative",
                "mirror", "emboss"}
ObjectProtoKeys == {"constructor", "toString", "valueOf", "hasOwnProperty"}
filterMapTruthy(f) == f \in FilterNames \/ f \in ObjectProtoKeys

(***************************************************************************)
(* The state the request path works on, as one record, so that the         *)
(* statements of a handler compose in program order.                       *)
(***************************************************************************)
Cur == [activeJobs |-> activeJobs, jobQueue |-> jobQueue, phase |-> phase,
        invoked |-> invoked, resp |-> resp, startLog |-> startLog,
        waitLog |-> waitLog]

Install(S) ==
    /\ activeJobs' = S.activeJobs
    /\ jobQueue' = S.jobQueue
    /\ phase' = S.phase
    /\ invoked' = S.invoked
    /\ resp' = S.resp
    /\ startLog' = S.startLog
    /\ waitLog' = S.waitLog

\* res.status(code).json(...) / res.json(...)
respond(S, j, code, name) ==
    [S EXCEPT !.resp[j] = Append(@, [status |-> code, filename |-> name])]

headersSent(S, j) == Len(S.resp[j]) > 0

\* const run = () => { activeJobs++; ...; jobFn() ... }
run(S, j) ==
    [S EXCEPT !.activeJobs = @ + 1,
              !.startLog = Append(@, j),
              !.invoked[j] = @ + 1,
              !.phase[j] = "running"]

\* faulty variant: jobQueue.pop() in place of jobQueue.shift()
shift_pop(q) == [head |-> q[Len(q)], rest |-> SubSeq(q, 1, Len(q) - 1)]

\* const next = jobQueue.shift();
shift(q) == [head |-> Head(q), rest |-> Tail(q)]

\* faulty variant: the finally callback frees the slot but never calls next()
finallyCb_noNext(S) == [S EXCEPT !.activeJobs = @ - 1]

\* faulty variant: the next job is read off the wait list but left in it
finallyCb_keepHead(S) ==
    LET S1 == [S EXCEPT !.activeJobs = @ - 1]
    IN  IF Len(S1.jobQueue) > 0 /\ S1.invoked[Head(S1.jobQueue)] = 0
        THEN run(S1, Head(S1.jobQueue))
        ELSE S1

\* faulty variant: jobQueue.length > 1 in place of jobQueue.length > 0
finallyCb_gtOne(S) ==
    LET S1 == [S EXCEPT !.activeJobs = @ - 1]
    IN  IF Len(S1.jobQueue) > 1
        THEN LET sh == shift(S1.jobQueue)
             IN  run([S1 EXCEPT !.jobQueue = sh.rest], sh.head)
        ELSE S1

\* .finally(() => { activeJobs--; if (jobQueue.length > 0) { ... next(); } })
finallyCb(S) ==
    LET S1 == [S EXCEPT !.activeJobs = @ - 1]
    IN  IF Len(S1.jobQueue) > 0
        THEN LET sh == shift(S1.jobQueue)
             IN  run([S1 EXCEPT !.jobQueue = sh.rest], sh.head)
        ELSE S1

\* faulty variant: <= in place of <
slotFree_le(S) == S.activeJobs <= MAX_CONCURRENT_JOBS

\* if (activeJobs < MAX_CONCURRENT_JOBS)
slotFree(S) == S.activeJobs < MAX_CONCURRENT_JOBS

\* faulty variant: jobQueue[0] = run in place of jobQueue.push(run)
push_overwrite(S, j) ==
    [S EXCEPT !.jobQueue = <<j>>,
              !.waitLog = Append(@, j),
              !.phase[j] = "queued"]

\* faulty variant: a submission that has to wait starts the head of the list
push_startHead(S, j) ==
    LET q == Append(S.jobQueue, j)
    IN  run([S EXCEPT !.jobQueue = Tail(q),
                      !.waitLog = Append(@, j),
                      !.phase[j] = "queued"], Head(q))

\* jobQueue.push(run)
push(S, j) ==
    [S EXCEPT !.jobQueue = Append(@, j),
              !.waitLog = Append(@, j),
              !.phase[j] = "queued"]

\* faulty variant: a wait list of bounded length that turns further jobs away
enqueueJob_bounded(S, j) ==
    IF slotFree(S) THEN run(S, j)
    ELSE IF Len(S.jobQueue) >= 1
         THEN [respond(S, j, 503, NoName) EXCEPT !.phase[j] = "rejected"]
    ELSE push(S, j)

\* faulty variant: every job goes through the wait list
enqueueJob_alwaysPush(S, j) == push(S, j)

enqueueJob(S, j) ==
    IF slotFree(S) THEN run(S, j) ELSE push(S, j)

(***************************************************************************)
(* The transform routes.  A request body is a record; a field the body     *)
(* lacks is NoName / "" / <<>> (all falsy in the source).                  *)
(***************************************************************************)
Req(rt, fn, fl, tx, fns, op) ==
    [route |-> rt, filename |-> fn, filter |-> fl, text |-> tx,
     filenames |-> fns, operation |-> op]

\* return res.status(code).json({ error: ... })
reject(S, j, code) ==
    [respond(S, j, code, NoName) EXCEPT !.phase[j] = "rejected"]

\* faulty variant: the handler does nothing while the slot is taken
trimRoute_waitForSlot(S, j, r, up) ==
    IF ~slotFree(S) THEN S
    ELSE IF r.filename = NoName THEN reject(S, j, 400)
    ELSE IF ~existsSync(up, r.filename) THEN reject(S, j, 404)
    ELSE enqueueJob(S, j)

\* router.post('/trim')
trimRoute(S, j, r, up) ==
    IF r.filename = NoName THEN reject(S, j, 400)
    ELSE IF ~existsSync(up, r.filename) THEN reject(S, j, 404)
    ELSE enqueueJob(S, j)

\* router.post('/filter')
filterRoute(S, j, r, up) ==
    IF r.filename = NoName \/ r.filter = "" THEN reject(S, j, 400)
    ELSE IF ~existsSync(up, r.filename) THEN reject(S, j, 404)
    ELSE IF ~filterMapTruthy(r.filter) THEN reject(S, j, 400)
    ELSE enqueueJob(S, j)

\* router.post('/text')
textRoute(S, j, r, up) ==
    IF r.filename = NoName \/ r.text = "" THEN reject(S, j, 400)
    ELSE IF ~existsSync(up, r.filename) THEN reject(S, j, 404)
    ELSE enqueueJob(S, j)

\* router.post('/merge')
mergeRoute(S, j, r, up) ==
    IF Len(r.filenames) < 2 THEN reject(S, j, 400)
    ELSE IF \E i \in 1..Len(r.filenames) : ~existsSync(up, r.filenames[i])
         THEN reject(S, j, 404)
    ELSE enqueueJob(S, j)

\* faulty variant: the job is enqueued before the operation name is checked
audioRoute_enqueueFirst(S, j, r, up) ==
    IF r.filename = NoName \/ r.operation = "" THEN reject(S, j, 400)
    ELSE IF ~existsSync(up, r.filename) THEN reject(S, j, 404)
    ELSE IF r.operation = "fadeOut" THEN [S EXCEPT !.phase[j] = "probing"]
    ELSE IF r.operation \in {"extract", "mute", "volume", "fadeIn"}
         THEN enqueueJob(S, j)
    ELSE respond(enqueueJob(S, j), j, 400, NoName)

\* router.post('/audio'); fadeOut first probes the duration (ffprobe) and
\* calls enqueueJob from the probe's callback, in a later turn.
audioRoute(S, j, r, up) ==
    IF r.filename = NoName \/ r.operation = "" THEN reject(S, j, 400)
    ELSE IF ~existsSync(up, r.filename) THEN reject(S, j, 404)
    ELSE IF r.operation = "extract" THEN enqueueJob(S, j)
    ELSE IF r.operation = "fadeOut" THEN [S EXCEPT !.phase[j] = "probing"]
    ELSE IF r.operation \in {"mute", "volume", "fadeIn"} THEN enqueueJob(S, j)
    ELSE reject(S, j, 400)

\* routes/video.js, router.post('/merge'): the legacy route, which runs the
\* engine at once (no queue) on a concat list file it writes first
legacyMergeRoute(S, j, r, up) ==
    IF Len(r.filenames) < 2 THEN reject(S, j, 400)
    ELSE IF \E i \in 1..Len(r.filenames) : ~existsSync(up, r.filenames[i])
         THEN reject(S, j, 404)
    ELSE [S EXCEPT !.phase[j] = "merging"]

\* faulty variant: the cleanup unlinks the files of the folder, not the list
unlinkList_folder(dir, j, err) ==
    IF err THEN dir
    ELSE [f \in { g \in DOMAIN dir : g = OutName(j) } |-> dir[f]]

\* try { if (fs.existsSync(listFilePath)) fs.unlinkSync(listFilePath); }
\* catch (e) { /* ignore */ }
unlinkList(dir, j, err) ==
    IF err THEN dir
    ELSE [f \in DOMAIN dir \ {ListName(j)} |-> dir[f]]

Handle(S, j, r, up) ==
    CASE r.route = "trim" -> trimRoute(S, j, r, up)
      [] r.route = "filter" -> filterRoute(S, j, r, up)
      [] r.route = "text" -> textRoute(S, j, r, up)
      [] r.route = "merge" -> mergeRoute(S, j, r, up)
      [] r.route = "audio" -> audioRoute(S, j, r, up)

\* The request bodies tried: every validation branch of every route.
RequestInputs ==
    { Req("trim", fn, "", "", <<>>, "") :
          fn \in {UploadName(1), GhostName, NoName, OutName(1)} }
    \cup { Req("filter", UploadName(1), fl, "", <<>>, "") :
          fl \in {"sepia", "emboss", "bogus", "constructor", ""} }
    \cup { Req("filter", fn, "sepia", "", <<>>, "") :
          fn \in {UploadName(2), GhostName, NoName} }
    \cup { Req("text", fn, "", tx, <<>>, "") :
          fn \in {UploadName(1), GhostName, NoName}, tx \in {"hi", ""} }
    \cup { Req("merge", NoName, "", "", fns, "") :
          fns \in { <<>>, <<UploadName(1)>>,
                    <<UploadName(1), UploadName(2)>>,
                    <<UploadName(1), GhostName>>,
                    <<UploadName(1), UploadName(1)>> } }
    \cup { Req("audio", UploadName(1), "", "", <<>>, op) :
          op \in {"extract", "fadeOut", "mute", "volume", "fadeIn",
                  "reverse", ""} }
    \cup { Req("audio", fn, "", "", <<>>, "mute") :
          fn \in {GhostName, NoName} }

(***************************************************************************)
(* The engine events of a running job.  fluent-ffmpeg emits exactly one of *)
(* 'end' and 'error' for a command that was run.                           *)
(***************************************************************************)
\* faulty variant: the end handler resolves without answering the caller
onEnd_noReply(S, j) == finallyCb([S EXCEPT !.phase[j] = "done"])

\* .on('end', () => { res.json({ success: true, filename }); resolve(); })
onEnd(S, j) ==
    LET S1 == respond(S, j, 200, OutName(j))
    IN  finallyCb([S1 EXCEPT !.phase[j] = "done"])

\* faulty variant: the error handler answers but never calls resolve()
onError_noResolve(S, j) ==
    LET S1 == IF ~headersSent(S, j) THEN respond(S, j, 500, NoName) ELSE S
    IN  [S1 EXCEPT !.phase[j] = "failed"]

\* faulty variant: the error handler resolves, the caller is not answered
onError_resolveOnly(S, j) == finallyCb([S EXCEPT !.phase[j] = "failed"])

\* .on('error', (err) => { if (!res.headersSent) res.status(500).json(...);
\*                         resolve(); })
onError(S, j) ==
    LET S1 == IF ~headersSent(S, j) THEN respond(S, j, 500, NoName) ELSE S
    IN  finallyCb([S1 EXCEPT !.phase[j] = "failed"])

(***************************************************************************)
(* The engine's error stream.  A line is a sequence of pieces; the four    *)
(* words the handler looks for are pieces of their own.  Only the trim     *)
(* route listens to 'stderr'.                                              *)
(***************************************************************************)
FailureMarkers == {"Error", "error", "Invalid", "failed"}

\* stderrLine.includes('Error') || stderrLine.includes('error') || ...
includesMarker(stderrLine) ==
    \E i \in 1..Len(stderrLine) : stderrLine[i] \in FailureMarkers

\* .on('stderr', (stderrLine) => { if (...) console.error(..., stderrLine); })
\* the handler writes to the log and touches neither the job nor the response
onStderr(log, j, stderrLine) ==
    IF includesMarker(stderrLine)
    THEN [log EXCEPT ![j] = @ \cup {stderrLine}]
    ELSE log

(***************************************************************************)
(* The sweep.  ioErr is the set of names for which statSync or unlinkSync  *)
(* throws; the inner try/catch skips such a file.  The directories exist   *)
(* (they are created at startup), so readdirSync succeeds.                 *)
(***************************************************************************)
\* faulty variant: >= in place of >
expired_ge(dir, f, t) == dir[f].isFile /\ (t - dir[f].mtime) >= MAX_FILE_AGE_MS

expired(dir, f, t) == dir[f].isFile /\ (t - dir[f].mtime) > MAX_FILE_AGE_MS

unlinked(dir, t, ioErr) ==
    { f \in DOMAIN dir : f \notin ioErr /\ expired(dir, f, t) }

\* faulty variant: no inner try/catch, the first throw ends the sweep of
\* the directory
cleanupOldFiles_abortOnError(dir, t, ioErr) ==
    IF \E f \in DOMAIN dir : f \in ioErr /\ expired(dir, f, t)
    THEN dir
    ELSE [f \in DOMAIN dir \ unlinked(dir, t, ioErr) |-> dir[f]]

cleanupOldFiles(dir, t, ioErr) ==
    [f \in DOMAIN dir \ unlinked(dir, t, ioErr) |-> dir[f]]

\* the body of both timer callbacks
sweepBoth(ioErr) ==
    /\ uploads' = cleanupOldFiles(uploads, now, ioErr)
    /\ processed' = cleanupOldFiles(processed, now, ioErr)
    /\ lastSweep' = [ioErr |-> ioErr,
                     cleanedUploads |->
                         Cardinality(unlinked(uploads, now, ioErr)),
                     cleanedProcessed |->
                         Cardinality(unlinked(processed, now, ioErr))]

(***************************************************************************)
(* Streaming and export.  Header texts are sequences of characters, so     *)
(* that the parsing of the Range header is computed as the source does it. *)
(* A JavaScript number is a record: NaN, or an integer value.              *)
(***************************************************************************)
NaN == [nan |-> TRUE, val |-> 0]
Num(n) == [nan |-> FALSE, val |-> n]

Digits == <<"0", "1", "2", "3", "4", "5", "6", "7", "8", "9">>
IsDigit(c) == \E d \in 1..10 : Digits[d] = c
DigitVal(c) == (CHOOSE d \in 1..10 : Digits[d] = c) - 1

\* the decimal text of a non-negative integer, as a client writes it
RECURSIVE ToChars(_)
ToChars(n) ==
    IF n < 10 THEN <<Digits[n + 1]>>
    ELSE ToChars(n \div 10) \o <<Digits[(n % 10) + 1]>>

\* position of the first occurrence of pat in s, 0 if there is none
IndexOf(s, pat) ==
    LET hits == { i \in 1..(Len(s) - Len(pat) + 1) :
                      SubSeq(s, i, i + Len(pat) - 1) = pat }
    IN  IF hits = {} THEN 0
        ELSE CHOOSE i \in hits : \A k \in hits : i <= k

BytesEq == <<"b", "y", "t", "e", "s", "=">>

\* range.replace(/bytes=/, ''): the first match is removed
replaceBytesEq(s) ==
    LET i == IndexOf(s, BytesEq)
    IN  IF i = 0 THEN s
        ELSE SubSeq(s, 1, i - 1) \o SubSeq(s, i + Len(BytesEq), Len(s))

\* String.prototype.split('-')
RECURSIVE split(_)
split(s) ==
    LET i == IndexOf(s, <<"-">>)
    IN  IF i = 0 THEN <<s>>
        ELSE <<SubSeq(s, 1, i - 1)>> \o split(SubSeq(s, i + 1, Len(s)))

\* the value of the longest prefix of s made of decimal digits
RECURSIVE digitsPrefix(_, _)
digitsPrefix(s, acc) ==
    IF s = <<>> \/ ~IsDigit(Head(s)) THEN acc
    ELSE digitsPrefix(Tail(s), 10 * acc + DigitVal(Head(s)))

RECURSIVE trimStart(_)
trimStart(s) ==
    IF s # <<>> /\ Head(s) = " " THEN trimStart(Tail(s)) ELSE s

\* parseInt(s, 10): leading blanks and one sign are skipped, the digits up
\* to the first other character are read, NaN if there is no digit
parseInt(s) ==
    LET t == trimStart(s)
        signed == t # <<>> /\ Head(t) \in {"+", "-"}
        u == IF signed THEN Tail(t) ELSE t
    IN  IF u = <<>> \/ ~IsDigit(Head(u)) THEN NaN
        ELSE IF signed /\ Head(t) = "-" THEN Num(0 - digitsPrefix(u, 0))
        ELSE Num(digitsPrefix(u, 0))

\* faulty variant: the chunk size is taken as end - start
chunksize_noPlusOne(start, end) ==
    IF start.nan \/ end.nan THEN NaN ELSE Num(end.val - start.val)

\* const chunksize = end - start + 1;
chunksize(start, end) ==
    IF start.nan \/ end.nan THEN NaN ELSE Num(end.val - start.val + 1)

\* fs.createReadStream(filePath, { start, end }) throws (synchronously,
\* before writeHead) unless start and end are integers >= 0 with
\* start <= end
createReadStreamThrows(start, end) ==
    \/ start.nan \/ end.nan
    \/ start.val < 0 \/ end.val < 0
    \/ start.val > end.val

\* the number of bytes the read stream pipes into the response
piped(fileSize, start, end) ==
    IF start.val >= fileSize THEN 0
    ELSE (IF end.val < fileSize THEN end.val ELSE fileSize - 1)
         - start.val + 1

JsonHeaders == [ContentType |-> "application/json"]

Response(code, hdrs, n, d) ==
    [status |-> code, headers |-> hdrs, sent |-> n, dir |-> d]

\* router.get('/video/:filename'), over UPLOADS_DIR (d names the folder that
\* is read).  range is the text of the Range header, <<>> if the request has
\* none.  A throw of the handler is answered 500 by the error-handling
\* middleware.
streamRoute(d, dir, name, range) ==
    IF ~existsSync(dir, name) THEN Response(404, JsonHeaders, 0, d)
    ELSE LET fileSize == dir[name].size
         IN  IF range # <<>>
             THEN LET parts == split(replaceBytesEq(range))
                      start == parseInt(parts[1])
                      end == IF Len(parts) >= 2 /\ parts[2] # <<>>
                             THEN parseInt(parts[2])
                             ELSE Num(fileSize - 1)
                  IN  IF createReadStreamThrows(start, end)
                      THEN Response(500, JsonHeaders, 0, d)
                      ELSE Response(206,
                               [ContentRange |-> [first |-> start,
                                                  last |-> end,
                                                  size |-> fileSize],
                                AcceptRanges |-> "bytes",
                                ContentLength |-> chunksize(start, end),
                                ContentType |-> "video/mp4"],
                               piped(fileSize, start, end), d)
             ELSE Response(200,
                      [ContentLength |-> Num(fileSize),
                       ContentType |-> "video/mp4"],
                      fileSize, d)

\* faulty variant: the Range header is ignored
processedVideoRoute_wholeFile(dir, name, range) ==
    IF ~existsSync(dir, name) THEN Response(404, JsonHeaders, 0, "processed")
    ELSE Response(200,
             [ContentLength |-> Num(dir[name].size),
              ContentType |-> "video/mp4"],
             dir[name].size, "processed")

\* router.get('/processed-video/:filename'), over PROCESSED_DIR: a handler of
\* its own in the source
processedVideoRoute(dir, name, range) ==
    IF ~existsSync(dir, name) THEN Response(404, JsonHeaders, 0, "processed")
    ELSE LET stat == dir[name]
             fileSize == stat.size
         IN  IF range # <<>>
             THEN LET parts == split(replaceBytesEq(range))
                      start == parseInt(parts[1])
                      end == IF Len(parts) >= 2 /\ parts[2] # <<>>
                             THEN parseInt(parts[2])
                             ELSE Num(fileSize - 1)
                  IN  IF createReadStreamThrows(start, end)
                      THEN Response(500, JsonHeaders, 0, "processed")
                      ELSE Response(206,
                               [ContentRange |-> [first |-> start,
                                                  last |-> end,
                                                  size |-> fileSize],
                                AcceptRanges |-> "bytes",
                                ContentLength |-> chunksize(start, end),
                                ContentType |-> "video/mp4"],
                               piped(fileSize, start, end), "processed")
             ELSE Response(200,
                      [ContentLength |-> Num(fileSize),
                       ContentType |-> "video/mp4"],
                      fileSize, "processed")

\* faulty variant: only the processed folder is looked at
exportRoute_processedOnly(up, pr, name, err) ==
    IF ~existsSync(pr, name) THEN Response(404, JsonHeaders, 0, "none")
    ELSE IF err THEN Response(500, JsonHeaders, 0, "processed")
    ELSE Response(200, [ContentLength |-> Num(pr[name].size),
                        ContentType |-> "video/mp4"],
                  pr[name].size, "processed")

\* router.get('/export/:filename'): the processed folder is checked first,
\* then the uploads folder.  err: res.download fails before any header is
\* sent.
exportRoute(up, pr, name, err) ==
    LET d == IF existsSync(pr, name) THEN "processed" ELSE "uploads"
        dir == IF d = "processed" THEN pr ELSE up
    IN  IF ~existsSync(dir, name) THEN Response(404, JsonHeaders, 0, "none")
        ELSE IF err THEN Response(500, JsonHeaders, 0, d)
        ELSE Response(200, [ContentLength |-> Num(dir[name].size),
                            ContentType |-> "video/mp4"],
                      dir[name].size, d)

(***************************************************************************)
(* The transform catalog: the engine command a route handler assembles     *)
(* from the request body.  Texts are sequences of characters; a fixed      *)
(* piece of a template that holds no special character is one element.    *)
(***************************************************************************)
RSQ == "U+2019"     \* the right single quotation mark
Undefined == <<"undefined">>    \* a field the request body lacks

\* String.prototype.replace(/c/g, rep)
RECURSIVE replaceAll(_, _, _)
replaceAll(s, c, r) ==
    IF s = <<>> THEN <<>>
    ELSE (IF Head(s) = c THEN r ELSE <<Head(s)>>) \o replaceAll(Tail(s), c, r)

\* faulty variant: the backslashes are escaped last, after the other
\* replacements have added their own
escapedText_backslashLast(text) ==
    LET s1 == replaceAll(text, "'", <<RSQ>>)
        s2 == replaceAll(s1, ":", <<"\\", ":">>)
        s3 == replaceAll(s2, "%", <<"%", "%">>)
        s4 == replaceAll(s3, "[", <<"\\", "[">>)
        s5 == replaceAll(s4, "]", <<"\\", "]">>)
    IN  replaceAll(s5, "\\", <<"\\", "\\">>)

\* const escapedText = text.replace(/\\/g, '\\\\').replace(/'/g, "\u2019")
\*     .replace(/:/g, '\\:').replace(/%/g, '%%')
\*     .replace(/\[/g, '\\[').replace(/\]/g, '\\]');
escapedText(text) ==
    LET s1 == replaceAll(text, "\\", <<"\\", "\\">>)
        s2 == replaceAll(s1, "'", <<RSQ>>)
        s3 == replaceAll(s2, ":", <<"\\", ":">>)
        s4 == replaceAll(s3, "%", <<"%", "%">>)
        s5 == replaceAll(s4, "[", <<"\\", "[">>)
    IN  replaceAll(s5, "]", <<"\\", "]">>)

\* routes/video.js: text.replace(/\\/g, '\\\\\\\\').replace(/'/g, "'\\\\\\''")
\*     .replace(/:/g, '\\:').replace(/;/g, '\\;')
legacyEscapedText(text) ==
    LET s1 == replaceAll(text, "\\", <<"\\", "\\", "\\", "\\">>)
        s2 == replaceAll(s1, "'", <<"'", "\\", "\\", "\\", "'", "'">>)
        s3 == replaceAll(s2, ":", <<"\\", ":">>)
    IN  replaceAll(s3, ";", <<"\\", ";">>)

\* fontSize || 32, fontColor || 'white' with '#' turned into '0x',
\* x || '(w-text_w)/2', y || '(h-text_h)/2'
orDefault(v, dflt) == IF v = Undefined \/ v = <<>> THEN dflt ELSE v

colorOf(fontColor) ==
    LET c == orDefault(fontColor, <<"white">>)
    IN  IF Head(c) = "#" THEN <<"0", "x">> \o Tail(c) ELSE c

\* the template literal of drawTextFilter, with the enable option appended
\* if (startTime !== undefined && endTime !== undefined)
drawTextFilter(font, esc, b) ==
    <<"drawtext=">>
    \o (IF font # <<>> THEN <<"fontfile=", "'">> \o font \o <<"'", ":">>
        ELSE <<>>)
    \o <<"text=", "'">> \o esc \o <<"'">>
    \o <<":", "fontsize=">> \o orDefault(b.fontSize, <<"3", "2">>)
    \o <<":", "fontcolor=">> \o colorOf(b.fontColor)
    \o <<":", "x=">> \o orDefault(b.x, <<"(w-text_w)/2">>)
    \o <<":", "y=">> \o orDefault(b.y, <<"(h-text_h)/2">>)
    \o (IF b.startTime # Undefined /\ b.endTime # Undefined
        THEN <<":", "enable=", "'", "between(t", ",">> \o b.startTime
             \o <<",">> \o b.endTime \o <<")", "'">>
        ELSE <<>>)

\* an argument list: every word is a text
W(words) == [i \in 1..Len(words) |-> <<words[i]>>]

FFMPEG_OUTPUT_OPTS ==
    W(<<"-c:v", "libx264", "-c:a", "aac", "-preset", "ultrafast",
        "-crf", "35", "-threads", "1", "-maxrate", "500k",
        "-bufsize", "250k", "-vf", "scale=480:-2",
        "-movflags", "+faststart", "-ac", "1", "-ar", "22050">>)

FFMPEG_VIDEO_ONLY_OPTS ==
    W(<<"-c:v", "libx264", "-preset", "ultrafast", "-crf", "35",
        "-threads", "1", "-maxrate", "500k", "-bufsize", "250k",
        "-vf", "scale=480:-2", "-movflags", "+faststart">>)

FFMPEG_NO_SCALE_OPTS ==
    W(<<"-c:v", "libx264", "-c:a", "aac", "-preset", "ultrafast",
        "-crf", "35", "-threads", "1", "-maxrate", "500k",
        "-bufsize", "250k", "-movflags", "+faststart", "-ac", "1",
        "-ar", "22050">>)

\* the outputOptions of the merge route
mergeOutputOptions ==
    W(<<"-c:v", "libx264", "-c:a", "aac", "-preset", "ultrafast",
        "-crf", "28", "-threads", "1", "-movflags", "+faststart",
        "-shortest">>)

\* .noVideo().audioCodec('libmp3lame').audioBitrate('128k')
extractOutputOptions == W(<<"-vn", "-acodec", "libmp3lame", "-b:a", "128k">>)

\* routes/video.js: the outputOptions of the legacy routes
legacyOutputOptions ==
    W(<<"-c:v", "libx264", "-c:a", "aac", "-preset", "fast",
        "-movflags", "+faststart">>)

\* an engine command: ffmpeg(input)... .run()
Command(rt, m) ==
    [route |-> rt, module |-> m, inputs |-> <<>>, inputOptions |-> <<>>,
     outputOptions |-> <<>>, videoFilters |-> <<>>, audioFilters |-> <<>>,
     complexFilter |-> <<>>, map |-> <<>>]

\* the command of router.post('/text'): m = "queue" is the route of
\* part_000, m = "legacy" the one of routes/video.js
textCommand(m, font, b) ==
    LET esc == IF m = "queue" THEN escapedText(b.text)
               ELSE legacyEscapedText(b.text)
    IN  [text |-> b.text, escaped |-> esc] @@
        [Command("text", m) EXCEPT
            !.videoFilters =
                IF m = "queue"
                THEN <<drawTextFilter(font, esc, b), <<"scale=480:-2">>>>
                ELSE <<drawTextFilter(font, esc, b)>>,
            !.outputOptions = IF m = "queue" THEN FFMPEG_NO_SCALE_OPTS
                              ELSE legacyOutputOptions]

\* a value of a JSON request body or of the probe's metadata
JsUndefined == [t |-> "undefined", n |-> 0, s |-> <<>>]
JsNumber(k) == [t |-> "number", n |-> k, s |-> <<>>]
JsString(chars) == [t |-> "string", n |-> 0, s |-> chars]

\* the truthiness of a value
truthy(v) ==
    CASE v.t = "number" -> v.n # 0
      [] v.t = "string" -> v.s # <<>>
      [] OTHER -> FALSE

\* String(k) of an integer
StringOf(k) == IF k < 0 THEN <<"-">> \o ToChars(0 - k) ELSE ToChars(k)

\* String(x) of a number
numText(x) == IF x.nan THEN <<"NaN">> ELSE StringOf(x.val)

\* String(v) of a value
textOf(v) ==
    CASE v.t = "number" -> StringOf(v.n)
      [] v.t = "string" -> v.s
      [] OTHER -> <<"undefined">>

\* parseFloat(v): the value is turned into text, of which the longest
\* numeric prefix is read (the texts of the model have no fraction or
\* exponent, on which parseFloat and parseInt would differ)
parseFloat(v) == parseInt(textOf(v))

\* Number(v), the conversion applied by the operator '-'
toNumber(v) ==
    CASE v.t = "number" -> Num(v.n)
      [] v.t = "string" ->
             IF v.s = <<>> THEN Num(0)
             ELSE IF \A i \in 1..Len(v.s) : IsDigit(v.s[i])
                  THEN parseInt(v.s)
             ELSE NaN
      [] OTHER -> NaN

\* x || 0 of a number
orZero(x) == IF x.nan \/ x.val = 0 THEN Num(0) ELSE x

\* x - y
minus(x, y) == IF x.nan \/ y.nan THEN NaN ELSE Num(x.val - y.val)

\* Math.max(0, x)
mathMax0(x) == IF x.nan THEN NaN ELSE IF x.val > 0 THEN x ELSE Num(0)

\* faulty variant: -t is passed whatever the duration
trimCommand_alwaysT(fn, startTime, endTime) ==
    LET start == orZero(parseFloat(startTime))
        end == orZero(parseFloat(endTime))
        duration == IF end.val > start.val THEN end.val - start.val ELSE 0
    IN  [startTime |-> startTime, endTime |-> endTime] @@
        [Command("trim", "queue") EXCEPT
            !.inputs = <<fn>>,
            !.inputOptions = <<<<"-ss">>, StringOf(start.val)>>,
            !.outputOptions =
                FFMPEG_OUTPUT_OPTS \o <<<<"-t">>, StringOf(duration)>>]

\* router.post('/trim'): start, end, duration and the options of the command
trimCommand(fn, startTime, endTime) ==
    LET start == orZero(parseFloat(startTime))
        end == orZero(parseFloat(endTime))
        duration == IF end.val > start.val THEN end.val - start.val ELSE 0
    IN  [startTime |-> startTime, endTime |-> endTime] @@
        [Command("trim", "queue") EXCEPT
            !.inputs = <<fn>>,
            !.inputOptions = <<<<"-ss">>, StringOf(start.val)>>,
            !.outputOptions =
                FFMPEG_OUTPUT_OPTS \o
                (IF duration > 0 THEN <<<<"-t">>, StringOf(duration)>>
                 ELSE <<>>)]

\* routes/video.js, router.post('/trim'): setStartTime(startTime || 0) and,
\* if (endTime), setDuration(endTime - (startTime || 0))
legacyTrimCommand(fn, startTime, endTime) ==
    LET st == IF truthy(startTime) THEN startTime ELSE JsNumber(0)
    IN  [startTime |-> startTime, endTime |-> endTime] @@
        [Command("trim", "legacy") EXCEPT
            !.inputs = <<fn>>,
            !.inputOptions = <<<<"-ss">>, textOf(st)>>,
            !.outputOptions =
                legacyOutputOptions \o
                (IF truthy(endTime)
                 THEN <<<<"-t">>,
                        numText(minus(toNumber(endTime), toNumber(st)))>>
                 ELSE <<>>)]

filterMap ==
    [grayscale |-> "colorchannelmixer=.3:.4:.3:0:.3:.4:.3:0:.3:.4:.3",
     sepia |-> "colorchannelmixer=.393:.769:.189:0:.349:.686:.168:0:.272:.534:.131",
     blur |-> "boxblur=5:1",
     sharpen |-> "unsharp=5:5:1.0:5:5:0.0",
     brightness |-> "eq=brightness=0.15",
     contrast |-> "eq=contrast=1.5",
     saturate |-> "eq=saturation=2.0",
     vignette |-> "vignette=PI/4",
     vintage |-> "curves=vintage",
     negative |-> "negate",
     mirror |-> "hflip",
     emboss |-> "convolution=-2 -1 0 -1 1 1 0 1 2:-2 -1 0 -1 1 1 0 1 2:-2 -1 0 -1 1 1 0 1 2:-2 -1 0 -1 1 1 0 1 2:5:5:5:5:0:128"]

\* router.post('/filter'): videoFilters([videoFilter, 'scale=480:-2']); a
\* name that is not an own key of filterMap yields an inherited function
filterCommand(fn, fl) ==
    [filter |-> fl] @@
    [Command("filter", "queue") EXCEPT
        !.inputs = <<fn>>,
        !.videoFilters =
            <<IF fl \in DOMAIN filterMap THEN <<filterMap[fl]>>
              ELSE <<"[Function]">>,
              <<"scale=480:-2">>>>,
        !.outputOptions = FFMPEG_NO_SCALE_OPTS]

\* a stream label of a filter graph, [0:v] or [v0]
InLabel(i, kind) == ToChars(i) \o <<":", kind>>
OutLabel(kind, i) == <<kind>> \o ToChars(i)

Stage(ins, f, outs) == [inputs |-> ins, filter |-> f, outputs |-> outs]

\* filterParts of the merge route for the inputs i..n-1; the stages are
\* joined with ';'
RECURSIVE filterParts(_, _)
filterParts(i, n) ==
    IF i >= n THEN <<>>
    ELSE << Stage(<<InLabel(i, "v")>>,
                  <<"scale=854:480:force_original_aspect_ratio=decrease",
                    ",", "pad=854:480:(ow-iw)/2:(oh-ih)/2", ",",
                    "setsar=1", ",", "fps=24">>,
                  <<OutLabel("v", i)>>),
            Stage(<<InLabel(i, "a")>>,
                  <<"aformat=sample_fmts=fltp:sample_rates=44100",
                    ":channel_layouts=stereo">>,
                  <<OutLabel("a", i)>>) >>
         \o filterParts(i + 1, n)

\* concatInputs += `[v${i}][a${i}]`
RECURSIVE concatInputs(_, _)
concatInputs(i, n) ==
    IF i >= n THEN <<>>
    ELSE <<OutLabel("v", i), OutLabel("a", i)>> \o concatInputs(i + 1, n)

\* faulty variant: the concat stage counts one input too few
concatStage_short(n) ==
    Stage(concatInputs(0, n),
          <<"concat=n=">> \o ToChars(n - 1) \o <<":v=1:a=1">>,
          <<<<"outv">>, <<"outa">>>>)

\* `${concatInputs}concat=n=${n}:v=1:a=1[outv][outa]`
concatStage(n) ==
    Stage(concatInputs(0, n),
          <<"concat=n=">> \o ToChars(n) \o <<":v=1:a=1">>,
          <<<<"outv">>, <<"outa">>>>)

\* router.post('/merge'): the inputs, the complex filter and the options
mergeCommand(fns) ==
    [Command("merge", "queue") EXCEPT
        !.inputs = fns,
        !.complexFilter = filterParts(0, Len(fns)) \o <<concatStage(Len(fns))>>,
        !.map = <<<<"outv">>, <<"outa">>>>,
        !.outputOptions = mergeOutputOptions]

\* the request was answered with an error status and no command was built
Rejected(rt, m, code) ==
    [status |-> code] @@ Command(rt, m)

\* ffmpeg.ffprobe(inputPath, (err, metadata) => ...): the probed duration,
\* 30 if there is none, and the start of the fade
probedDuration(probe) ==
    IF ~probe.err /\ truthy(probe.duration) THEN parseFloat(probe.duration)
    ELSE Num(30)

\* faulty variant: the fade start is not clamped at 0
fadeStart_noClamp(probe) == minus(probedDuration(probe), Num(3))

\* const fadeStart = Math.max(0, duration - 3);
fadeStart(probe) == mathMax0(minus(probedDuration(probe), Num(3)))

\* router.post('/audio'): the command of an accepted operation
audioCommand(fn, op, volume, probe) ==
    [operation |-> op, probe |-> probe] @@
    [Command("audio", "queue") EXCEPT
        !.inputs = <<fn>>,
        !.audioFilters =
            CASE op = "fadeOut" ->
                     << <<"afade=t=out:st=">> \o numText(fadeStart(probe))
                        \o <<":d=3">> >>
              [] op = "volume" ->
                     << <<"volume=">> \o orDefault(volume, <<"1">>) >>
              [] op = "fadeIn" -> << <<"afade=t=in:st=0:d=3">> >>
              [] OTHER -> <<>>,
        !.outputOptions =
            CASE op = "extract" -> extractOutputOptions
              [] op = "mute" -> <<<<"-an">>>> \o FFMPEG_VIDEO_ONLY_OPTS
              [] OTHER -> FFMPEG_OUTPUT_OPTS]

(***************************************************************************)
(* POST /upload.  multer has stored the file (req.file) before the handler *)
(* runs; the handler probes it and answers in the probe's callback.  The   *)
(* probe is not a job of the queue.                                        *)
(***************************************************************************)
NoFile == [filename |-> NoName, originalname |-> NoName, size |-> 0]
OrigName(k) == <<"orig", k>>

\* v || 0
orJsZero(v) == IF truthy(v) THEN v ELSE JsNumber(0)

\* {}
EmptyObject ==
    [codec_type |-> "", width |-> JsUndefined, height |-> JsUndefined]

\* (metadata.streams || []).find(s => s.codec_type === 'video') || {}
videoStream(streams) ==
    LET hits == { i \in 1..Len(streams) : streams[i].codec_type = "video" }
    IN  IF hits = {} THEN EmptyObject
        ELSE streams[CHOOSE i \in hits : \A k \in hits : i <= k]

UploadBody(file, duration, width, height) ==
    [success |-> TRUE, filename |-> file.filename,
     originalName |-> file.originalname, size |-> file.size,
     duration |-> duration, width |-> width, height |-> height]

\* faulty variant: a failed probe fails the upload
uploadRoute_probeRequired(file, probe) ==
    IF file = NoFile
    THEN Response(400, JsonHeaders, 0, "none") @@ [body |-> <<>>]
    ELSE IF probe.err
    THEN Response(500, JsonHeaders, 0, "uploads") @@ [body |-> <<>>]
    ELSE Response(200, JsonHeaders, 0, "uploads") @@
         [body |-> UploadBody(file, orJsZero(probe.duration),
                              orJsZero(videoStream(probe.streams).width),
                              orJsZero(videoStream(probe.streams).height))]

\* router.post('/upload', upload.single('video'), ...): the response; probe
\* is what ffprobe hands to the callback
uploadRoute(file, probe) ==
    IF file = NoFile
    THEN Response(400, JsonHeaders, 0, "none") @@ [body |-> <<>>]
    ELSE IF probe.err
    THEN Response(200, JsonHeaders, 0, "uploads") @@
         [body |-> UploadBody(file, JsNumber(0), JsNumber(0), JsNumber(0))]
    ELSE Response(200, JsonHeaders, 0, "uploads") @@
         [body |-> UploadBody(file, orJsZero(probe.duration),
                              orJsZero(videoStream(probe.streams).width),
                              orJsZero(videoStream(probe.streams).height))]

GetReq(rt, name, range) == [route |-> rt, name |-> name, range |-> range]

NoRequest == [req |-> GetReq("none", NoName, <<>>),
              res |-> Response(0, JsonHeaders, 0, "none")]
NoCommand == [route |-> "none"]

(***************************************************************************)
(* Initial state and actions.                                              *)
(***************************************************************************)
Init ==
    /\ activeJobs = 0
    /\ jobQueue = <<>>
    /\ phase = [j \in Jobs |-> "none"]
    /\ invoked = [j \in Jobs |-> 0]
    /\ resp = [j \in Jobs |-> <<>>]
    /\ startLog = <<>>
    /\ waitLog = <<>>
    /\ nreq = 0
    /\ nup = 0
    /\ uploads = <<>>
    /\ processed = <<>>
    /\ now = 0
    /\ nticks = 0
    /\ startupDone = FALSE
    /\ nextInterval = CLEANUP_INTERVAL_MS
    /\ lastSweep = [ioErr |-> {}, cleanedUploads |-> 0, cleanedProcessed |-> 0]
    /\ served = NoRequest
    /\ built = NoCommand
    /\ stderrLog = [j \in Jobs |-> {}]

\* POST /upload, POST /upload-multiple: multer stores the file
Upload(n) ==
    /\ nup < MaxUploads
    /\ nup' = nup + 1
    /\ uploads' = (UploadName(nup + 1) :> FileEntry(now, n)) @@ uploads
    /\ UNCHANGED <<ovars, qvars, processed, tvars>>

\* a transform request arrives and its route handler runs
Receive(r) ==
    /\ nreq < NumReq
    /\ nreq' = nreq + 1
    /\ Install(Handle(Cur, nreq + 1, r, uploads))
    /\ UNCHANGED <<ovars, nup, uploads, processed, tvars>>

\* the ffprobe callback of an audio fadeOut request
ProbeDone(j) ==
    /\ phase[j] = "probing"
    /\ Install(enqueueJob(Cur, j))
    /\ UNCHANGED <<ovars, nreq, nup, uploads, processed, tvars>>

\* the engine writes (part of) the output file of a running job
EngineWrite(j, n) ==
    /\ phase[j] = "running"
    /\ ~existsSync(processed, OutName(j))
    /\ processed' = (OutName(j) :> FileEntry(now, n)) @@ processed
    /\ UNCHANGED <<ovars, qvars, nup, uploads, tvars>>

\* the engine writes a line to its error stream
EngineStderr(j, stderrLine) ==
    /\ phase[j] = "running"
    /\ stderrLog' = onStderr(stderrLog, j, stderrLine)
    /\ UNCHANGED <<served, built, qvars, nup, uploads, processed, tvars>>

\* the engine finishes the output and signals 'end'
EngineEnd(j, n) ==
    /\ phase[j] = "running"
    /\ processed' = (OutName(j) :> FileEntry(now, n)) @@ processed
    /\ Install(onEnd(Cur, j))
    /\ UNCHANGED <<ovars, nreq, nup, uploads, tvars>>

\* the engine signals 'error'
EngineError(j) ==
    /\ phase[j] = "running"
    /\ Install(onError(Cur, j))
    /\ UNCHANGED <<ovars, nreq, nup, uploads, processed, tvars>>

\* routes/video.js, POST /merge: validation, then writeFileSync of the list
\* file and start of the engine
LegacyMerge(r) ==
    /\ nreq < NumReq
    /\ nreq' = nreq + 1
    /\ LET S == legacyMergeRoute(Cur, nreq + 1, r, uploads)
       IN  /\ Install(S)
           /\ processed' =
                  IF S.phase[nreq + 1] = "merging"
                  THEN (ListName(nreq + 1) :> FileEntry(now, 1)) @@ processed
                  ELSE processed
    /\ UNCHANGED <<ovars, nup, uploads, tvars>>

\* routes/video.js, merge .on('end'): the output is complete, the list file
\* is cleaned up, the caller is answered
LegacyMergeEnd(j, n, err) ==
    /\ phase[j] = "merging"
    /\ processed' = unlinkList((OutName(j) :> FileEntry(now, n)) @@ processed,
                               j, err)
    /\ Install([respond(Cur, j, 200, OutName(j)) EXCEPT !.phase[j] = "done"])
    /\ UNCHANGED <<ovars, nreq, nup, uploads, tvars>>

\* routes/video.js, merge .on('error')
LegacyMergeError(j, err) ==
    /\ phase[j] = "merging"
    /\ processed' = unlinkList(processed, j, err)
    /\ Install([respond(Cur, j, 500, NoName) EXCEPT !.phase[j] = "failed"])
    /\ UNCHANGED <<ovars, nreq, nup, uploads, tvars>>

\* router.post('/text') assembles the drawtext command of a request
BuildText(m, font, b) ==
    /\ built' = textCommand(m, font, b)
    /\ UNCHANGED <<qvars, nup, uploads, processed, tvars, served, stderrLog>>

\* router.post('/trim') of part_000 (m = "queue") or of routes/video.js
\* assembles the command of a request that passed validation
BuildTrim(m, fn, startTime, endTime) ==
    /\ existsSync(uploads, fn)
    /\ built' = IF m = "queue" THEN trimCommand(fn, startTime, endTime)
                ELSE legacyTrimCommand(fn, startTime, endTime)
    /\ UNCHANGED <<qvars, nup, uploads, processed, tvars, served, stderrLog>>

\* router.post('/filter') assembles the command of an admitted request
BuildFilter(fn, fl) ==
    /\ existsSync(uploads, fn)
    /\ filterMapTruthy(fl)
    /\ built' = filterCommand(fn, fl)
    /\ UNCHANGED <<qvars, nup, uploads, processed, tvars, served, stderrLog>>

\* router.post('/merge'): validation, then the command
BuildMerge(r) ==
    /\ built' =
           LET S == mergeRoute(Cur, 1, r, uploads)
           IN  [filenames |-> r.filenames] @@
               (IF headersSent(S, 1)
                THEN Rejected("merge", "queue", S.resp[1][1].status)
                ELSE mergeCommand(r.filenames))
    /\ UNCHANGED <<qvars, nup, uploads, processed, tvars, served, stderrLog>>

\* router.post('/audio') assembles the command of an accepted operation;
\* for fadeOut in the callback of the probe
BuildAudio(fn, op, volume, probe) ==
    /\ existsSync(uploads, fn)
    /\ built' = audioCommand(fn, op, volume, probe)
    /\ UNCHANGED <<qvars, nup, uploads, processed, tvars, served, stderrLog>>

\* GET /video/:filename (d = "uploads"), GET /processed-video/:filename
\* (d = "processed")
Stream(d, name, range) ==
    /\ served' =
           [req |-> GetReq(IF d = "uploads" THEN "video"
                           ELSE "processed-video", name, range),
            res |-> IF d = "uploads"
                    THEN streamRoute("uploads", uploads, name, range)
                    ELSE processedVideoRoute(processed, name, range)]
    /\ UNCHANGED <<qvars, nup, uploads, processed, tvars, built, stderrLog>>

\* GET /export/:filename
Export(name, err) ==
    /\ served' = [req |-> GetReq("export", name, <<>>),
                  res |-> exportRoute(uploads, processed, name, err)]
    /\ UNCHANGED <<qvars, nup, uploads, processed, tvars, built, stderrLog>>

\* the ffprobe callback of POST /upload for the k-th stored file answers
\* the caller; req.file is read off the stored entry
UploadAnswer(k, probe) ==
    /\ k \in 1..nup
    /\ existsSync(uploads, UploadName(k))
    /\ served' =
           [req |-> GetReq("upload", UploadName(k), <<>>) @@ [probe |-> probe],
            res |-> uploadRoute([filename |-> UploadName(k),
                                 originalname |-> OrigName(k),
                                 size |-> uploads[UploadName(k)].size],
                                probe)]
    /\ UNCHANGED <<qvars, nup, uploads, processed, tvars, built, stderrLog>>

\* POST /upload whose form holds no file: if (!req.file) return 400
UploadNothing ==
    /\ served' = [req |-> GetReq("upload", NoName, <<>>),
                  res |-> uploadRoute(NoFile, [err |-> FALSE])]
    /\ UNCHANGED <<qvars, nup, uploads, processed, tvars, built, stderrLog>>

\* the clock is observed once per sweep period
TickSteps == {CLEANUP_INTERVAL_MS}

Tick(d) ==
    /\ nticks < MaxTicks
    /\ nticks' = nticks + 1
    /\ now' = now + d
    /\ UNCHANGED <<ovars, qvars, nup, uploads, processed, startupDone, nextInterval,
                   lastSweep>>

\* setTimeout(() => { cleanupOldFiles(uploadsDir); ... }, 60 * 1000)
StartupSweep(ioErr) ==
    /\ ~startupDone
    /\ now >= STARTUP_SWEEP_MS
    /\ startupDone' = TRUE
    /\ sweepBoth(ioErr)
    /\ UNCHANGED <<ovars, qvars, nup, now, nticks, nextInterval>>

\* setInterval(() => { cleanupOldFiles(uploadsDir); ... }, CLEANUP_INTERVAL_MS)
IntervalSweep(ioErr) ==
    /\ now >= nextInterval
    /\ nextInterval' = now + CLEANUP_INTERVAL_MS
    /\ sweepBoth(ioErr)
    /\ UNCHANGED <<ovars, qvars, nup, now, nticks, startupDone>>

\* the files a sweep at this instant would unlink; an fs error on any other
\* file has no effect on the sweep
Stale == unlinked(uploads, now, {}) \cup unlinked(processed, now, {})

(***************************************************************************)
(* Spec: the request path and the engine, at one instant of the clock.     *)
(***************************************************************************)
Next ==
    \/ Upload(MaxBytes)
    \/ \E r \in RequestInputs : Receive(r)
    \/ \E j \in Jobs : ProbeDone(j)
    \/ \E j \in Jobs : EngineWrite(j, MaxBytes)
    \/ \E j \in Jobs : EngineEnd(j, MaxBytes)
    \/ \E j \in Jobs : EngineError(j)

Spec == Init /\ [][Next]_vars

(***************************************************************************)
(* SweepSpec: the clock and the two sweep timers, next to uploads and to   *)
(* trim jobs that fill the processed directory.                            *)
(***************************************************************************)
SweepRequests == { Req("trim", UploadName(1), "", "", <<>>, "") }

SweepReceive(r) == nreq < MaxSweepJobs /\ Receive(r)

SweepNext ==
    \/ Upload(MaxBytes)
    \/ \E r \in SweepRequests : SweepReceive(r)
    \/ \E j \in Jobs : EngineWrite(j, MaxBytes)
    \/ \E j \in Jobs : EngineEnd(j, MaxBytes)
    \/ \E j \in Jobs : EngineError(j)
    \/ \E d \in TickSteps : Tick(d)
    \/ \E ioErr \in SUBSET Stale : StartupSweep(ioErr)
    \/ \E ioErr \in SUBSET Stale : IntervalSweep(ioErr)

SweepSpec == Init /\ [][SweepNext]_vars

(***************************************************************************)
(* ServeSpec: streaming and export of files of several sizes, uploaded or  *)
(* produced by a trim job.                                                 *)
(***************************************************************************)
\* sizes of a stored file; what the engine has written when it signals 'end'
\* is not under the program's control, an output of no bytes included
ServeSizes == {0, 1, MaxBytes}
ServeNames == {UploadName(1), OutName(1), GhostName}
RangeOffsets == {0, 1, MaxBytes - 1, MaxBytes}

\* the Range header texts a client sends
HdrRange(a, b) == BytesEq \o ToChars(a) \o <<"-">> \o ToChars(b)
HdrFrom(a) == BytesEq \o ToChars(a) \o <<"-">>
HdrSuffix(n) == BytesEq \o <<"-">> \o ToChars(n)

RangeHeaders ==
    {<<>>}
    \cup { HdrRange(a, b) : a \in RangeOffsets, b \in RangeOffsets }
    \cup { HdrFrom(a) : a \in RangeOffsets }
    \cup { HdrSuffix(1) }

\* a GET changes nothing but its own response, so one GET per behaviour,
\* at any point of it, shows every response the server can give
FirstStream(d, name, range) == served = NoRequest /\ Stream(d, name, range)
FirstExport(name, err) == served = NoRequest /\ Export(name, err)
FirstUploadAnswer(k, probe) == served = NoRequest /\ UploadAnswer(k, probe)
FirstUploadNothing == served = NoRequest /\ UploadNothing

\* what ffprobe hands to the callback of an upload: an error, or the
\* duration of the format section and the streams
ProbeFailed == [err |-> TRUE, duration |-> JsUndefined, streams |-> <<>>]

AudioStream ==
    [codec_type |-> "audio", width |-> JsUndefined, height |-> JsUndefined]
VideoStream ==
    [codec_type |-> "video", width |-> JsNumber(640), height |-> JsNumber(480)]

ServeProbes ==
    { ProbeFailed }
    \cup { [err |-> FALSE, duration |-> dur, streams |-> st] :
               dur \in {JsUndefined, JsNumber(MaxTime)},
               st \in {<<>>, <<AudioStream>>, <<AudioStream, VideoStream>>} }

ServeNext ==
    \/ \E n \in ServeSizes : Upload(n)
    \/ \E r \in SweepRequests : SweepReceive(r)
    \/ \E j \in Jobs, n \in ServeSizes : EngineEnd(j, n)
    \/ \E j \in Jobs : EngineError(j)
    \/ \E d \in {"uploads", "processed"}, name \in ServeNames,
          range \in RangeHeaders : FirstStream(d, name, range)
    \/ \E name \in ServeNames, err \in BOOLEAN : FirstExport(name, err)
    \/ \E k \in 1..MaxUploads, probe \in ServeProbes :
          FirstUploadAnswer(k, probe)
    \/ FirstUploadNothing

ServeSpec == Init /\ [][ServeNext]_vars

(***************************************************************************)
(* StoreSpec: everything that touches the two directories.  Uploads, the   *)
(* routes of both route modules (they are mounted on the same path, one or *)
(* the other), the engine, the GET routes, and the sweeps on a clock that  *)
(* advances by more than the retention window.                             *)
(***************************************************************************)
StoreRequests ==
    { Req("trim", fn, "", "", <<>>, "") : fn \in {UploadName(1), GhostName} }

StoreMerges ==
    { Req("merge", NoName, "", "", fns, "") :
          fns \in { <<UploadName(1), UploadName(1)>>,
                    <<UploadName(1), GhostName>> } }

StoreTickSteps == {MAX_FILE_AGE_MS + CLEANUP_INTERVAL_MS}

StoreReceive(r) == nreq < MaxStoreJobs /\ Receive(r)
StoreMerge(r) == nreq < MaxStoreJobs /\ LegacyMerge(r)
StoreTick(d) == nticks < MaxStoreTicks /\ Tick(d)
StoreUpload == nup < MaxStoreUploads /\ Upload(MaxBytes)

StoreNext ==
    \/ StoreUpload
    \/ \E r \in StoreRequests : StoreReceive(r)
    \/ \E r \in StoreMerges : StoreMerge(r)
    \/ \E j \in Jobs : EngineWrite(j, 1)
    \/ \E j \in Jobs : EngineEnd(j, MaxBytes)
    \/ \E j \in Jobs : EngineError(j)
    \/ \E j \in Jobs, err \in BOOLEAN : LegacyMergeEnd(j, MaxBytes, err)
    \/ \E j \in Jobs, err \in BOOLEAN : LegacyMergeError(j, err)
    \/ \E d \in StoreTickSteps : StoreTick(d)
    \/ StartupSweep({})
    \/ IntervalSweep({})
    \/ \E d \in {"uploads", "processed"} :
          FirstStream(d, IF d = "uploads" THEN UploadName(1) ELSE OutName(1),
                      <<>>)
    \/ FirstExport(UploadName(1), FALSE)

StoreSpec == Init /\ [][StoreNext]_vars

(***************************************************************************)
(* CatalogSpec: the commands the route handlers assemble, over bounded     *)
(* sets of request bodies.                                                 *)
(***************************************************************************)
TextChars == {"a", "\\", "'", ":", "%", "[", "]", ";", RSQ}
Texts == UNION { [1..n -> TextChars] : n \in 1..MaxTextLen }

TextBody(t) ==
    [text |-> t, fontSize |-> Undefined, fontColor |-> Undefined,
     x |-> Undefined, y |-> Undefined, startTime |-> Undefined,
     endTime |-> Undefined]

\* getSystemFont(): the first font file found, none on a host without one
Fonts == {<<>>, <<"DejaVuSans.ttf">>}

TimeValues ==
    {JsUndefined} \cup { JsNumber(k) : k \in (0 - 1)..MaxTime }
    \cup { JsString(<<"3">>), JsString(<<"x">>), JsString(<<>>) }

\* what the probe reports: an error, or the duration of the format section
NoProbe == [err |-> FALSE, duration |-> JsUndefined]
ProbeResults ==
    { [err |-> TRUE, duration |-> JsUndefined] }
    \cup { [err |-> FALSE, duration |-> v] :
               v \in {JsUndefined, JsString(<<"N/A">>)}
                     \cup { JsNumber(k) : k \in 0..MaxTime } }

MergeNames == {UploadName(1), UploadName(2), GhostName}
MergeLists == UNION { [1..n -> MergeNames] : n \in 0..MaxMergeInputs }

AudioInputs ==
    { <<op, Undefined, NoProbe>> :
          op \in {"extract", "mute", "volume", "fadeIn"} }
    \cup { <<"volume", <<"2">>, NoProbe>> }
    \cup { <<"fadeOut", Undefined, pr>> : pr \in ProbeResults }

\* a command depends on its request body alone, so one command per
\* behaviour shows every command a handler can assemble
FirstText ==
    /\ built = NoCommand
    /\ \E m \in {"queue", "legacy"}, font \in Fonts, t \in Texts :
          BuildText(m, font, TextBody(t))

\* values of the fields fontSize, fontColor, x, y, startTime, endTime of a
\* POST /text body: plain ones, and ones that hold a colon, a comma or a
\* quote
StyleValues ==
    { <<"10">>, <<"#", "fff">>, <<"10", ":", "box=1">>,
      <<"10", ",", "hflip">>, <<"0", ")", "'", ",", "hflip">> }

StyledBodies ==
    LET base == TextBody(<<"a">>)
        timed == [base EXCEPT !.startTime = <<"1">>, !.endTime = <<"2">>]
    IN  { [base EXCEPT !.fontSize = v] : v \in StyleValues }
        \cup { [base EXCEPT !.fontColor = v] : v \in StyleValues }
        \cup { [base EXCEPT !.x = v] : v \in StyleValues }
        \cup { [base EXCEPT !.y = v] : v \in StyleValues }
        \cup { [timed EXCEPT !.startTime = v] : v \in StyleValues }
        \cup { [timed EXCEPT !.endTime = v] : v \in StyleValues }

FirstStyledText ==
    /\ built = NoCommand
    /\ \E m \in {"queue", "legacy"}, font \in Fonts, b \in StyledBodies :
          BuildText(m, font, b)

FirstTrim ==
    /\ built = NoCommand
    /\ \E m \in {"queue", "legacy"}, st \in TimeValues, et \in TimeValues :
          BuildTrim(m, UploadName(1), st, et)

FirstFilter ==
    /\ built = NoCommand
    /\ \E fl \in FilterNames \cup ObjectProtoKeys :
          BuildFilter(UploadName(1), fl)

FirstMerge ==
    /\ built = NoCommand
    /\ \E fns \in MergeLists :
          BuildMerge(Req("merge", NoName, "", "", fns, ""))

FirstAudio ==
    /\ built = NoCommand
    /\ \E a \in AudioInputs : BuildAudio(UploadName(1), a[1], a[2], a[3])

CatalogNext ==
    \/ Upload(MaxBytes)
    \/ FirstText
    \/ FirstStyledText
    \/ FirstTrim
    \/ FirstFilter
    \/ FirstMerge
    \/ FirstAudio

CatalogSpec == Init /\ [][CatalogNext]_vars

(***************************************************************************)
(* LiveSpec: the queue under the assumption that the engine signals 'end'  *)
(* or 'error' for every job it runs.                                       *)
(***************************************************************************)
LiveRequests ==
    { Req("trim", UploadName(1), "", "", <<>>, ""),
      Req("trim", GhostName, "", "", <<>>, ""),
      Req("audio", UploadName(1), "", "", <<>>, "fadeOut") }

LiveNext ==
    \/ Upload(MaxBytes)
    \/ \E r \in LiveRequests : Receive(r)
    \/ \E j \in Jobs : ProbeDone(j)
    \/ \E j \in Jobs : EngineEnd(j, MaxBytes)
    \/ \E j \in Jobs : EngineError(j)

EngineSignals == \A j \in Jobs : WF_vars(EngineEnd(j, MaxBytes) \/ EngineError(j))

LiveSpec == Init /\ [][LiveNext]_vars /\ EngineSignals

(***************************************************************************)
(* BusySpec: uploads, their probe callbacks, GET requests and transform    *)
(* requests arriving while the slot is taken and jobs wait.                *)
(***************************************************************************)
BusyProbes ==
    { ProbeFailed,
      [err |-> FALSE, duration |-> JsNumber(MaxTime),
       streams |-> <<VideoStream>>] }

BusyNext ==
    \/ Upload(MaxBytes)
    \/ \E r \in LiveRequests : Receive(r)
    \/ \E j \in Jobs : ProbeDone(j)
    \/ \E j \in Jobs : EngineEnd(j, MaxBytes)
    \/ \E j \in Jobs : EngineError(j)
    \/ \E k \in 1..MaxUploads, probe \in BusyProbes :
          FirstUploadAnswer(k, probe)
    \/ \E d \in {"uploads", "processed"} :
          FirstStream(d, IF d = "uploads" THEN UploadName(1) ELSE OutName(1),
                      <<>>)
    \/ FirstExport(UploadName(1), FALSE)

BusySpec == Init /\ [][BusyNext]_vars

(***************************************************************************)
(* EngineSpec: trim jobs whose engine writes lines to its error stream     *)
(* before it signals 'end' or 'error'.                                     *)
(***************************************************************************)
StderrLines ==
    { <<"frame=", "   10 fps=0.0 q=28.0 size=       0kB">>,
      <<"Error", " while decoding stream #0:0: ", "Invalid",
        " data found when processing input">>,
      <<"Conversion ", "failed", "!">> }

EngineNext ==
    \/ StoreUpload
    \/ \E r \in SweepRequests : StoreReceive(r)
    \/ \E j \in Jobs, stderrLine \in StderrLines : EngineStderr(j, stderrLine)
    \/ \E j \in Jobs : EngineWrite(j, 1)
    \/ \E j \in Jobs : EngineEnd(j, MaxBytes)
    \/ \E j \in Jobs : EngineError(j)

EngineSpec == Init /\ [][EngineNext]_vars

(***************************************************************************)
(* Vocabulary of the properties.                                           *)
(***************************************************************************)
Range(q) == { q[i] : i \in 1..Len(q) }
Terminal == { j \in Jobs : phase[j] \in {"done", "failed"} }
Started == { j \in Jobs : invoked[j] > 0 }
RunningJobs == Started \ Terminal
Waiting == { j \in Range(waitLog) : invoked[j] = 0 }
\* the job that has been in the wait list longest
OldestWaiting ==
    waitLog[CHOOSE i \in 1..Len(waitLog) :
                /\ invoked[waitLog[i]] = 0
                /\ \A k \in 1..(i - 1) : invoked[waitLog[k]] > 0]
StartsNow(j) == invoked[j] = 0 /\ invoked'[j] > 0

(***************************************************************************)
(* C1.  The running-job counter stays within 0..MAX_CONCURRENT_JOBS and    *)
(* equals the number of jobs whose transform has started and has not yet   *)
(* completed.                                                              *)
(***************************************************************************)
C1_ActiveJobsCountsRunning ==
    /\ activeJobs \in 0..MAX_CONCURRENT_JOBS
    /\ activeJobs = Cardinality(RunningJobs)

\* the slot is taken, a job waits behind it, and an earlier job has completed
C1_Witness ==
    /\ activeJobs = MAX_CONCURRENT_JOBS
    /\ Len(jobQueue) >= 1
    /\ Terminal # {}

(***************************************************************************)
(* C2.  Waiting jobs are released strictly in the order they were          *)
(* appended: whenever a job starts while jobs are waiting, it is the one   *)
(* that has waited longest; so a newly submitted job never starts ahead of *)
(* a waiting one, and of two waiting jobs the earlier one starts first.    *)
(***************************************************************************)
C2_FifoRelease ==
    [][\A j \in Jobs :
          (StartsNow(j) /\ Waiting # {}) => j = OldestWaiting]_vars

\* two jobs waited and both have started, the earlier one first
C2_Witness ==
    /\ Len(waitLog) >= 2
    /\ invoked[waitLog[2]] > 0
    /\ \E i \in 1..Len(startLog) : \E k \in 1..Len(startLog) :
          i < k /\ startLog[i] = waitLog[1] /\ startLog[k] = waitLog[2]

(***************************************************************************)
(* C3.  A job that ends by the engine's 'error' event frees its slot as a  *)
(* successful one does: it stops counting as running, and when jobs are    *)
(* waiting the oldest of them is started in its place (else activeJobs     *)
(* drops to 0), so a job submitted after a failing job still executes.     *)
(***************************************************************************)
C3_FailureFreesSlot ==
    [][\A j \in Jobs :
          (phase[j] = "running" /\ phase'[j] = "failed") =>
              /\ activeJobs' = Cardinality(RunningJobs')
              /\ IF Waiting = {}
                 THEN activeJobs' = activeJobs - 1 /\ jobQueue' = <<>>
                 ELSE /\ StartsNow(OldestWaiting)
                      /\ phase'[OldestWaiting] = "running"
                      /\ jobQueue' = Tail(jobQueue)]_vars

\* a job failed, and a job submitted after it that had to wait has run
C3_Witness ==
    \E j \in Jobs : \E k \in Jobs :
        /\ phase[j] = "failed"
        /\ k > j
        /\ k \in Range(waitLog)
        /\ phase[k] = "done"

(***************************************************************************)
(* C4.  No starvation: provided the engine eventually signals 'end' or     *)
(* 'error' for every job it is running, every job placed in the wait list  *)
(* eventually has its transform started.                                   *)
(***************************************************************************)
C4_NoStarvation ==
    \A j \in Jobs : (phase[j] = "queued") ~> (invoked[j] > 0)

\* a job that had to wait is the one now running
C4_Witness ==
    \E j \in Range(waitLog) : phase[j] = "running" /\ activeJobs = 1

(***************************************************************************)
(* C5.  Once the engine has signalled completion for every started job,    *)
(* every job handed to enqueueJob is in a terminal state, each was run     *)
(* exactly once, the wait list is empty and activeJobs is 0.               *)
(***************************************************************************)
Submitted == { j \in Jobs : phase[j] \in {"queued", "running", "done", "failed"} }

C5_AllJobsAccounted ==
    (Started \subseteq Terminal) =>
        /\ Cardinality(Terminal) = Cardinality(Submitted)
        /\ Len(startLog) = Cardinality(Submitted)
        /\ \A j \in Terminal : invoked[j] = 1
        /\ jobQueue = <<>>
        /\ activeJobs = 0

\* all requests are in, at least three jobs ran to a terminal state (one of
\* them done, one failed, one after waiting) and the engine is idle
C5_Witness ==
    /\ nreq = NumReq
    /\ Started \subseteq Terminal
    /\ Cardinality(Terminal) >= 3
    /\ \E j \in Terminal : phase[j] = "done" /\ j \in Range(waitLog)
    /\ \E j \in Terminal : phase[j] = "failed"

(***************************************************************************)
(* C6.  The caller of a job handed to enqueueJob is answered exactly once: *)
(* not before the engine signals, with 200 and the output filename on      *)
(* 'end', with 500 on 'error', whether the job ran at once or waited.      *)
(***************************************************************************)
C6_ExactlyOneResponse ==
    \A j \in Jobs :
        /\ Len(resp[j]) <= 1
        /\ phase[j] \in {"probing", "queued", "running"} => resp[j] = <<>>
        /\ phase[j] = "done" =>
               resp[j] = << [status |-> 200, filename |-> OutName(j)] >>
        /\ phase[j] = "failed" =>
               resp[j] = << [status |-> 500, filename |-> NoName] >>

\* a job that waited was answered 200, a job that ran at once was answered 500
C6_Witness ==
    /\ \E j \in Range(waitLog) : phase[j] = "done" /\ Len(resp[j]) = 1
    /\ \E k \in Jobs \ Range(waitLog) : phase[k] = "failed" /\ Len(resp[k]) = 1

(***************************************************************************)
(* C7.  A request answered 400 or 404 by its route handler never reaches   *)
(* enqueueJob: the step that rejects it leaves activeJobs, the wait list   *)
(* and the set of started transforms unchanged, and the request is never   *)
(* queued or run afterwards.                                               *)
(***************************************************************************)
RejectedNow(j) ==
    resp[j] = <<>> /\ resp'[j] # <<>> /\ resp'[j][1].status \in {400, 404}

C7_RejectedNeverEnqueued ==
    /\ [][\A j \in Jobs :
             RejectedNow(j) =>
                 /\ activeJobs' = activeJobs
                 /\ jobQueue' = jobQueue
                 /\ invoked' = invoked
                 /\ startLog' = startLog
                 /\ waitLog' = waitLog
                 /\ processed' = processed]_vars
    /\ [](\A j \in Jobs :
             (resp[j] # <<>> /\ resp[j][1].status \in {400, 404}) =>
                 invoked[j] = 0 /\ j \notin Range(jobQueue)
                                /\ j \notin Range(waitLog))

\* with a job running, one request was answered 400 and another 404
C7_Witness ==
    /\ activeJobs = 1
    /\ \E j \in Jobs : resp[j] # <<>> /\ resp[j][1].status = 400
    /\ \E k \in Jobs : resp[k] # <<>> /\ resp[k][1].status = 404

(***************************************************************************)
(* C8.  A valid transform request is never turned away or dropped for lack *)
(* of capacity: in every state, whatever activeJobs and the length of the  *)
(* wait list, handling it either starts its job or appends it to the wait  *)
(* list (for fadeOut: after the probe), and every queued job stays in the  *)
(* wait list until it starts.                                              *)
(***************************************************************************)
InputsExist(r, up) ==
    IF r.route = "merge"
    THEN \A i \in 1..Len(r.filenames) : r.filenames[i] \in DOMAIN up
    ELSE r.filename \in DOMAIN up

Acceptable(r, up) ==
    /\ InputsExist(r, up)
    /\ r.route = "filter" => r.filter \in FilterNames
    /\ r.route = "text" => r.text # ""
    /\ r.route = "merge" => Len(r.filenames) >= 2
    /\ r.route = "audio" =>
           r.operation \in {"extract", "fadeOut", "mute", "volume", "fadeIn"}

Admitted(S, j) ==
    /\ S.resp[j] = <<>>
    /\ IF activeJobs < MAX_CONCURRENT_JOBS
       THEN S.phase[j] = "running" /\ S.invoked[j] = 1
            /\ S.activeJobs = activeJobs + 1
       ELSE S.jobQueue = Append(jobQueue, j) /\ S.activeJobs = activeJobs

C8_NeverRejectedForCapacity ==
    /\ nreq < NumReq =>
           \A r \in RequestInputs :
               Acceptable(r, uploads) =>
                   LET S2 == Handle(Cur, nreq + 1, r, uploads)
                   IN  IF r.operation = "fadeOut"
                       THEN S2.phase[nreq + 1] = "probing"
                            /\ S2.resp[nreq + 1] = <<>>
                       ELSE Admitted(S2, nreq + 1)
    /\ \A j \in Jobs :
           /\ phase[j] = "probing" => Admitted(enqueueJob(Cur, j), j)
           /\ phase[j] = "queued" =>
                  Cardinality({ i \in 1..Len(jobQueue) : jobQueue[i] = j }) = 1

\* every request after the first had to wait and all of them are in the list
C8_Witness ==
    /\ activeJobs = MAX_CONCURRENT_JOBS
    /\ Len(jobQueue) = NumReq - 1

(***************************************************************************)
(* C9.  After a job has failed (engine 'error'), the processed directory   *)
(* holds no file at that job's output path: a partially written output is  *)
(* removed.                                                                *)
(***************************************************************************)
C9_FailedOutputRemoved ==
    \A j \in Jobs : phase[j] = "failed" => ~existsSync(processed, OutName(j))

(***************************************************************************)
(* C10.  A sweep (either timer callback) treats both directories alike:    *)
(* every regular file older than the retention window at sweep time is     *)
(* gone after it, every file within the window is still there, unchanged.  *)
(* C10_SweepAsClaimed is the statement for every old file;                 *)
(* C10_SweepDeletesOldKeepsYoung excepts the old files whose statSync or   *)
(* unlinkSync threw during that sweep.                                     *)
(***************************************************************************)
SweepStep == startupDone' # startupDone \/ nextInterval' # nextInterval

Old(dir, f) == dir[f].isFile /\ now - dir[f].mtime > MAX_FILE_AGE_MS

Kept(before, after, f) == f \in DOMAIN after /\ after[f] = before[f]

SweptAsClaimed(before, after) ==
    \A f \in DOMAIN before :
        IF Old(before, f) THEN f \notin DOMAIN after ELSE Kept(before, after, f)

SweptUnlessError(before, after, err) ==
    \A f \in DOMAIN before :
        /\ (Old(before, f) /\ f \notin err) => f \notin DOMAIN after
        /\ ~Old(before, f) => Kept(before, after, f)

C10_SweepAsClaimed ==
    [][SweepStep => /\ SweptAsClaimed(uploads, uploads')
                    /\ SweptAsClaimed(processed, processed')]_vars

C10_SweepDeletesOldKeepsYoung ==
    [][SweepStep =>
          /\ SweptUnlessError(uploads, uploads', lastSweep'.ioErr)
          /\ SweptUnlessError(processed, processed', lastSweep'.ioErr)]_vars

\* the interval sweep has just run: it unlinked an old file in each
\* directory and left a younger upload in place
C10_Witness ==
    /\ nextInterval = now + CLEANUP_INTERVAL_MS
    /\ lastSweep.cleanedUploads > 0
    /\ lastSweep.cleanedProcessed > 0
    /\ \E f \in DOMAIN uploads : uploads[f].mtime < now

(***************************************************************************)
(* C11.  The output filename of a completed transform, still present in    *)
(* the processed directory, is accepted as the input filename of a next    *)
(* transform request: the request is not rejected (404) but admitted with  *)
(* that processed file as its input.                                       *)
(***************************************************************************)
\* the request bodies that name the output of job k as their input
ChainedRequests(k) ==
    { Req("trim", OutName(k), "", "", <<>>, ""),
      Req("filter", OutName(k), "sepia", "", <<>>, ""),
      Req("text", OutName(k), "", "hi", <<>>, ""),
      Req("merge", NoName, "", "", <<OutName(k), OutName(k)>>, ""),
      Req("audio", OutName(k), "", "", <<>>, "mute") }

C11_ChainedInputResolved ==
    \A k \in Jobs :
        (/\ nreq < NumReq
         /\ phase[k] = "done"
         /\ resp[k] = <<[status |-> 200, filename |-> OutName(k)]>>
         /\ existsSync(processed, OutName(k))) =>
            \A r \in ChainedRequests(k) :
                Handle(Cur, nreq + 1, r, uploads).phase[nreq + 1] # "rejected"

(***************************************************************************)
(* C12.  A stored artifact (an upload or a transform output) leaves its    *)
(* directory only in a sweep: every step that is not a sweep - an upload,  *)
(* a stream or export request, a rejected request, an admitted transform,  *)
(* an engine event of a succeeding or failing job, the list-file cleanup   *)
(* of the legacy merge - keeps every artifact present, and unchanged       *)
(* unless it is the output that a job still running in that step writes.   *)
(***************************************************************************)
IsArtifact(f) == f[1] \in {"up", "out"}

\* f is the output file of a job the engine is working on
BeingWritten(f) ==
    \E j \in Jobs : f = OutName(j) /\ phase[j] \in {"running", "merging"}

ArtifactsKept(before, after) ==
    \A f \in DOMAIN before :
        IsArtifact(f) =>
            /\ f \in DOMAIN after
            /\ ~BeingWritten(f) => after[f] = before[f]

C12_RemovedOnlyBySweep ==
    [][~SweepStep => /\ ArtifactsKept(uploads, uploads')
                     /\ ArtifactsKept(processed, processed')]_vars

\* a sweep has removed the only upload, and a legacy merge has completed and
\* removed its list file next to the output of an earlier job
C12_Witness ==
    /\ \E j \in Jobs : /\ phase[j] = "done"
                       /\ invoked[j] = 0      \* run outside the queue
                       /\ j > 1
                       /\ existsSync(processed, OutName(j))
                       /\ existsSync(processed, OutName(1))
                       /\ ~existsSync(processed, ListName(j))
    /\ lastSweep.cleanedUploads > 0
    /\ uploads = <<>>

(***************************************************************************)
(* C13.  A stream request for an existing file of size S with the header   *)
(* Range: bytes=a-b, 0 <= a <= b <= S-1, is answered 206 with              *)
(* Content-Range bytes a-b/S and Content-Length b-a+1; with b omitted      *)
(* (bytes=a-) b is S-1; a request without a Range header is answered 200   *)
(* with Content-Length S.  Both stream routes behave so.                   *)
(***************************************************************************)
Dir(d) == IF d = "uploads" THEN uploads ELSE processed

\* this step is a GET on route rt
GetNow(rt) == served' # served /\ served'.req.route = rt

Partial(res, a, b, S) ==
    /\ res.status = 206
    /\ res.headers.ContentRange =
           [first |-> Num(a), last |-> Num(b), size |-> S]
    /\ res.headers.ContentLength = Num(b - a + 1)

RangeAnswered(d) ==
    LET q == served'.req
        res == served'.res
        S == Dir(d)[q.name].size
    IN  existsSync(Dir(d), q.name) =>
            /\ \A a \in 0..(S - 1) : \A b \in a..(S - 1) :
                   q.range = HdrRange(a, b) => Partial(res, a, b, S)
            /\ \A a \in 0..(S - 1) :
                   q.range = HdrFrom(a) => Partial(res, a, S - 1, S)
            /\ q.range = <<>> =>
                   /\ res.status = 200
                   /\ res.headers.ContentLength = Num(S)
                   /\ "ContentRange" \notin DOMAIN res.headers

C13_RangeResponse ==
    [][/\ GetNow("video") => RangeAnswered("uploads")
       /\ GetNow("processed-video") => RangeAnswered("processed")]_vars

\* a processed file was streamed with a range of two-digit offsets
C13_Witness ==
    /\ served.req.route = "processed-video"
    /\ served.req.range = HdrRange(1, MaxBytes - 1)
    /\ served.res.status = 206
    /\ served.res.headers.ContentLength = Num(MaxBytes - 1)
    /\ served.res.sent = MaxBytes - 1

(***************************************************************************)
(* C14.  A stream request for a name its directory does not hold is        *)
(* answered 404 and no byte is streamed.  An export request is resolved    *)
(* against the processed directory first and the uploads directory second: *)
(* it is answered 404 exactly if neither holds the name, and a 200 answer  *)
(* carries the whole file of the directory found first.                    *)
(***************************************************************************)
AbsentAnswered(d) ==
    ~existsSync(Dir(d), served'.req.name) =>
        served'.res.status = 404 /\ served'.res.sent = 0

ExportAnswered ==
    LET name == served'.req.name
        res == served'.res
    IN  /\ res.status = 404 <=>
               ~existsSync(processed, name) /\ ~existsSync(uploads, name)
        /\ existsSync(processed, name) =>
               /\ res.dir = "processed"
               /\ res.status = 200 => res.sent = processed[name].size
        /\ (~existsSync(processed, name) /\ existsSync(uploads, name)) =>
               /\ res.dir = "uploads"
               /\ res.status = 200 => res.sent = uploads[name].size

C14_AbsentAndExport ==
    [][/\ GetNow("video") => AbsentAnswered("uploads")
       /\ GetNow("processed-video") => AbsentAnswered("processed")
       /\ GetNow("export") => ExportAnswered]_vars

\* an upload was exported while the processed directory holds another file
C14_Witness ==
    /\ served.req.route = "export"
    /\ served.res.status = 200
    /\ served.res.dir = "uploads"
    /\ served.res.sent = MaxBytes
    /\ processed # <<>>

(***************************************************************************)
(* C15.  POST /filter for an existing input admits the request exactly if  *)
(* the filter name is one of the twelve names of the catalog; any other    *)
(* name, the names of inherited object members such as 'constructor' and   *)
(* 'toString' among them, is answered 400 and never enqueued.              *)
(***************************************************************************)
C15_OnlyCatalogFilters ==
    nreq < NumReq =>
        \A r \in RequestInputs :
            (r.route = "filter" /\ existsSync(uploads, r.filename)) =>
                LET S == Handle(Cur, nreq + 1, r, uploads)
                IN  IF r.filter \in FilterNames
                    THEN Admitted(S, nreq + 1)
                    ELSE /\ S.phase[nreq + 1] = "rejected"
                         /\ S.resp[nreq + 1] =
                                <<[status |-> 400, filename |-> NoName]>>
                         /\ S.invoked[nreq + 1] = 0
                         /\ S.jobQueue = jobQueue

(***************************************************************************)
(* C16.  The escaped overlay text is the input with every backslash,       *)
(* colon, '[' and ']' preceded by a backslash, every '%' doubled and no    *)
(* single quote left, so that it reads as one text argument.               *)
(* C16_RenderedLiteral is the statement that, for every POST /text, the    *)
(* value read back is the input itself; C16_RenderedQuoteReplaced is the   *)
(* statement for the queue-based route module, with the value read back    *)
(* being the input in which each single quote is replaced by U+2019.       *)
(***************************************************************************)
\* what the listed rules make of one character
Piece(c) ==
    IF c \in {"\\", ":", "[", "]"} THEN <<"\\", c>>
    ELSE IF c = "%" THEN <<"%", "%">>
    ELSE IF c = "'" THEN <<RSQ>>
    ELSE <<c>>

RECURSIVE Pieces(_)
Pieces(t) == IF t = <<>> THEN <<>> ELSE Piece(Head(t)) \o Pieces(Tail(t))

EscapedAsListed(t, e) == e = Pieces(t) /\ "'" \notin Range(e)

\* reading a quoted argument: a backslash takes the next character
\* literally, %% is a percent sign, and an unescaped quote, colon, bracket
\* or percent sign ends the argument or starts something else
RECURSIVE ReadArg(_, _)
ReadArg(s, acc) ==
    IF s = <<>> THEN [whole |-> TRUE, value |-> acc]
    ELSE IF Head(s) = "\\"
         THEN IF Len(s) >= 2
              THEN ReadArg(SubSeq(s, 3, Len(s)), Append(acc, s[2]))
              ELSE [whole |-> FALSE, value |-> acc]
    ELSE IF Head(s) = "%"
         THEN IF Len(s) >= 2 /\ s[2] = "%"
              THEN ReadArg(SubSeq(s, 3, Len(s)), Append(acc, "%"))
              ELSE [whole |-> FALSE, value |-> acc]
    ELSE IF Head(s) \in {"'", ":", "[", "]"}
         THEN [whole |-> FALSE, value |-> acc]
    ELSE ReadArg(Tail(s), Append(acc, Head(s)))

HasOpt(opts, name) == \E i \in 1..Len(opts) : opts[i] = <<name>>

OptValue(opts, name, val) ==
    \E i \in 1..(Len(opts) - 1) : opts[i] = <<name>> /\ opts[i + 1] = val

IsCommand(c) == c.route # "none" /\ "status" \notin DOMAIN c

\* the picture is scaled down by the output options, by the filter chain or
\* by every video stage of the filter graph, or there is no picture
CappedResolution(c) ==
    \/ OptValue(c.outputOptions, "-vf", <<"scale=480:-2">>)
    \/ \E i \in 1..Len(c.videoFilters) : c.videoFilters[i] = <<"scale=480:-2">>
    \/ /\ c.complexFilter # <<>>
       /\ \A i \in 0..(Len(c.inputs) - 1) :
              \E k \in 1..Len(c.complexFilter) :
                  /\ c.complexFilter[k].inputs = <<InLabel(i, "v")>>
                  /\ c.complexFilter[k].filter[1] =
                         "scale=854:480:force_original_aspect_ratio=decrease"
    \/ HasOpt(c.outputOptions, "-vn")

C17_LowResourceProfile ==
    (IsCommand(built) /\ built.module = "queue") =>
        /\ HasOpt(built.outputOptions, "-maxrate")
        /\ OptValue(built.outputOptions, "-threads", <<"1">>)
        /\ CappedResolution(built)

(***************************************************************************)
(* C18.  The trim command seeks the input to start (-ss) and limits the    *)
(* output duration (-t), start and end being the numeric request values,   *)
(* 0 when missing or not numeric.  C18_DurationClamped is the statement    *)
(* that -t is always passed, with the value max(0, end - start);           *)
(* C18_DurationIfPositive is the statement for the queue-based route that  *)
(* -t is passed with end - start when end > start and not at all when      *)
(* end <= start.                                                           *)
(***************************************************************************)
NumericValue(v) == orZero(parseFloat(v)).val

C18_DurationClamped ==
    (IsCommand(built) /\ built.route = "trim") =>
        LET start == NumericValue(built.startTime)
            end == NumericValue(built.endTime)
        IN  /\ built.inputOptions = <<<<"-ss">>, StringOf(start)>>
            /\ OptValue(built.outputOptions, "-t",
                        StringOf(IF end - start > 0 THEN end - start ELSE 0))

C18_DurationIfPositive ==
    (IsCommand(built) /\ built.route = "trim" /\ built.module = "queue") =>
        LET start == NumericValue(built.startTime)
            end == NumericValue(built.endTime)
        IN  /\ built.inputOptions = <<<<"-ss">>, StringOf(start)>>
            /\ IF end > start
               THEN built.outputOptions =
                        FFMPEG_OUTPUT_OPTS \o <<<<"-t">>, StringOf(end - start)>>
               ELSE ~HasOpt(built.outputOptions, "-t")

\* a trim whose end (the text "3") is not after its start: no -t is passed
C18_Witness ==
    /\ built.route = "trim"
    /\ built.module = "queue"
    /\ built.startTime = JsNumber(MaxTime)
    /\ built.endTime = JsString(<<"3">>)
    /\ built.inputOptions = <<<<"-ss">>, ToChars(MaxTime)>>
    /\ built.outputOptions = FFMPEG_OUTPUT_OPTS

(***************************************************************************)
(* C19.  A merge request with fewer than two filenames is answered 400,    *)
(* one with a missing input 404.  Otherwise the filter graph has, for each *)
(* input i, exactly one video stage [i:v] -> [vi] and one audio stage      *)
(* [i:a] -> [ai], all video stages and all audio stages with the same      *)
(* target, then exactly one concat stage with n equal to the number of     *)
(* inputs and the inputs [v0][a0]...[v(n-1)][a(n-1)], giving one video and *)
(* one audio output; the inputs are in the order of the filenames.         *)
(***************************************************************************)
StagesFrom(g, label) == { k \in 1..Len(g) : g[k].inputs = <<label>> }

ConcatStages(g) == { k \in 1..Len(g) : g[k].filter[1] = "concat=n=" }

GraphAsClaimed(g, n) ==
    /\ Len(g) = 2 * n + 1
    /\ \A i \in 0..(n - 1) :
           /\ Cardinality(StagesFrom(g, InLabel(i, "v"))) = 1
           /\ Cardinality(StagesFrom(g, InLabel(i, "a"))) = 1
           /\ \A k \in StagesFrom(g, InLabel(i, "v")) :
                  /\ g[k].outputs = <<OutLabel("v", i)>>
                  /\ g[k].filter = g[1].filter
           /\ \A k \in StagesFrom(g, InLabel(i, "a")) :
                  /\ g[k].outputs = <<OutLabel("a", i)>>
                  /\ g[k].filter = g[2].filter
    /\ ConcatStages(g) = {2 * n + 1}
    /\ g[2 * n + 1].filter = <<"concat=n=">> \o ToChars(n) \o <<":v=1:a=1">>
    /\ g[2 * n + 1].inputs =
           [k \in 1..(2 * n) |->
               IF k % 2 = 1 THEN OutLabel("v", (k - 1) \div 2)
               ELSE OutLabel("a", (k - 2) \div 2)]
    /\ g[2 * n + 1].outputs = <<<<"outv">>, <<"outa">>>>

MergeAnswered ==
    LET c == built'
        fns == c.filenames
    IN  IF Len(fns) < 2 THEN ~IsCommand(c) /\ c.status = 400
        ELSE IF \E i \in 1..Len(fns) : ~existsSync(uploads, fns[i])
             THEN ~IsCommand(c) /\ c.status = 404
        ELSE /\ IsCommand(c)
             /\ c.inputs = fns
             /\ GraphAsClaimed(c.complexFilter, Len(fns))
             /\ c.map = <<<<"outv">>, <<"outa">>>>

C19_MergeGraph ==
    [][(built' # built /\ built'.route = "merge") => MergeAnswered]_vars

\* three inputs, one of them twice, have been merged
C19_Witness ==
    /\ built.route = "merge"
    /\ IsCommand(built)
    /\ built.inputs = <<UploadName(2), UploadName(1), UploadName(2)>>
    /\ Len(built.complexFilter) = 7
    /\ built.complexFilter[7].inputs[5] = <<"v", "2">>

(***************************************************************************)
(* C20.  The fade start of an audio fadeOut command is max(0, d - 3), never *)
(* negative.  C20_FadeStartFromProbed is the statement with d the duration *)
(* the probe reports, whatever number that is; C20_FadeStartOrDefault is   *)
(* the statement with d the reported duration if that is a number other    *)
(* than 0, and 30 if the probe fails or reports no duration or 0 (a        *)
(* duration text that is not numeric gives NaN).                           *)
(***************************************************************************)
FadeOutBuilt == IsCommand(built) /\ built.route = "audio"
                /\ built.operation = "fadeOut"

FadeFilter(st) == << <<"afade=t=out:st=">> \o st \o <<":d=3">> >>

Max0(k) == IF k > 0 THEN k ELSE 0

Reported(probe) == ~probe.err /\ probe.duration.t = "number"

C20_FadeStartFromProbed ==
    (FadeOutBuilt /\ Reported(built.probe)) =>
        built.audioFilters =
            FadeFilter(StringOf(Max0(built.probe.duration.n - 3)))

C20_FadeStartOrDefault ==
    FadeOutBuilt =>
        LET probe == built.probe
        IN  /\ (Reported(probe) /\ probe.duration.n # 0) =>
                   built.audioFilters =
                       FadeFilter(StringOf(Max0(probe.duration.n - 3)))
            /\ (\/ probe.err
                \/ probe.duration.t = "undefined"
                \/ Reported(probe) /\ probe.duration.n = 0) =>
                   built.audioFilters = FadeFilter(<<"2", "7">>)
            /\ (~probe.err /\ probe.duration = JsString(<<"N/A">>)) =>
                   built.audioFilters = FadeFilter(<<"NaN">>)
            /\ \A k \in 1..(MaxTime + 30) :
                   built.audioFilters # FadeFilter(StringOf(0 - k))

\* a source shorter than the fade: the fade starts at 0
C20_Witness ==
    /\ FadeOutBuilt
    /\ built.probe = [err |-> FALSE, duration |-> JsNumber(1)]
    /\ built.audioFilters = FadeFilter(<<"0">>)

(***************************************************************************)
(* C21.  The queue blocks nothing but the start of a transform.  While a   *)
(* job runs and another waits, an upload, the answer to an upload, a       *)
(* stream or export request and a transform request can all be handled,    *)
(* and the step that handles one completes it: the file is stored, the GET *)
(* or upload is answered, the transform request is answered (400/404),     *)
(* appended to the wait list, or (fadeOut) sent to the probe, whose        *)
(* callback appends it.  None of these steps starts a transform or frees   *)
(* the slot.                                                               *)
(***************************************************************************)
Busy == activeJobs = MAX_CONCURRENT_JOBS /\ jobQueue # <<>>

AppendedNow(j) ==
    /\ phase'[j] = "queued"
    /\ jobQueue' = Append(jobQueue, j)
    /\ resp'[j] = <<>>

HandledNow ==
    /\ nup' # nup => existsSync(uploads', UploadName(nup'))
    /\ served' # served => served'.res.status \in {200, 206, 400, 404, 500}
    /\ nreq' # nreq =>
           \/ phase'[nreq'] = "rejected" /\ Len(resp'[nreq']) = 1
           \/ phase'[nreq'] = "probing"
           \/ AppendedNow(nreq')
    /\ \A j \in Jobs :
           (phase[j] = "probing" /\ phase'[j] # "probing") => AppendedNow(j)
    /\ (nup' # nup \/ served' # served \/ nreq' # nreq
          \/ \E j \in Jobs : phase[j] = "probing" /\ phase'[j] # "probing") =>
           /\ invoked' = invoked
           /\ activeJobs' = activeJobs

C21_NotBlockedByQueue ==
    /\ [](Busy =>
            /\ nup < MaxUploads => ENABLED Upload(MaxBytes)
            /\ nreq < NumReq => \A r \in LiveRequests : ENABLED Receive(r)
            /\ \A j \in Jobs : phase[j] = "probing" => ENABLED ProbeDone(j)
            /\ (served = NoRequest /\ nup > 0) =>
                   /\ ENABLED FirstStream("uploads", UploadName(1), <<>>)
                   /\ ENABLED FirstExport(UploadName(1), FALSE)
                   /\ ENABLED FirstUploadAnswer(1, ProbeFailed))
    /\ [][Busy => HandledNow]_vars

\* one job runs and two wait, the second of them admitted while the first
\* waited; every upload is stored and a GET or an upload has been answered
C21_Witness ==
    /\ activeJobs = MAX_CONCURRENT_JOBS
    /\ Len(jobQueue) >= 2
    /\ nup = MaxUploads
    /\ served # NoRequest
    /\ served.res.status = 200

(***************************************************************************)
(* C22.  No abort path: a running job stops running only in the step in    *)
(* which the engine signals 'end' or 'error' for it, and then it is done   *)
(* or failed.  No other step - a submission, an upload, a GET, a tick of   *)
(* the clock, a sweep - lowers activeJobs, takes a job off the wait list   *)
(* or starts a job while the slot is taken.  (The source has no handler    *)
(* for a closed connection; a caller that disconnects is no step.)         *)
(***************************************************************************)
EngineSignalsNow(j) == EngineEnd(j, MaxBytes) \/ EngineError(j)

C22_RunsToCompletion ==
    [][/\ \A j \in Jobs :
             (phase[j] = "running" /\ phase'[j] # "running") =>
                 /\ EngineSignalsNow(j)
                 /\ phase'[j] \in {"done", "failed"}
       /\ (\/ activeJobs' < activeJobs
           \/ \E k \in Jobs : phase[k] = "queued" /\ phase'[k] # "queued"
           \/ \E k \in Jobs : activeJobs = MAX_CONCURRENT_JOBS /\ StartsNow(k))
          => \E j \in Jobs : phase[j] = "running" /\ EngineSignalsNow(j)]_vars

\* a job has been running since before the clock advanced past the
\* retention window; a sweep has run, a later submission waits behind the
\* job and a GET has been answered
C22_Witness ==
    /\ phase[1] = "running"
    /\ nticks > 0
    /\ startupDone
    /\ lastSweep.cleanedUploads > 0
    /\ jobQueue # <<>>
    /\ served # NoRequest

(***************************************************************************)
(* C23.  In the step that answers the caller of a job with success and the *)
(* output filename, the output file exists in the processed directory and  *)
(* is not empty.                                                           *)
(***************************************************************************)
SucceedsNow(j) ==
    /\ resp[j] = <<>>
    /\ resp'[j] = <<[status |-> 200, filename |-> OutName(j)]>>

C23_SuccessOutputNonEmpty ==
    [][\A j \in Jobs :
          SucceedsNow(j) =>
              /\ existsSync(processed', OutName(j))
              /\ processed'[OutName(j)].size > 0]_vars

(***************************************************************************)
(* C24.  When the probe of an uploaded file fails, the upload is still     *)
(* answered with success: status 200, the stored filename, the original    *)
(* name and the size of the file, and duration, width and height 0.  The   *)
(* answering step leaves the uploads directory as it is, the uploaded file *)
(* in it.                                                                  *)
(***************************************************************************)
ZeroMetadata(req, file) ==
    [success |-> TRUE, filename |-> req.name,
     originalName |-> OrigName(req.name[2]), size |-> file.size,
     duration |-> JsNumber(0), width |-> JsNumber(0), height |-> JsNumber(0)]

C24_UploadSurvivesProbeFailure ==
    [][(GetNow("upload") /\ served'.req.name # NoName
                         /\ served'.req.probe.err) =>
          /\ served'.res.status = 200
          /\ served'.res.body =
                 ZeroMetadata(served'.req, uploads[served'.req.name])
          /\ uploads' = uploads
          /\ existsSync(uploads', served'.req.name)]_vars

\* the second upload, a file of the largest size, was answered after its
\* probe failed
C24_Witness ==
    /\ served.req.route = "upload"
    /\ served.req.name = UploadName(2)
    /\ served.req.probe = ProbeFailed
    /\ served.res.status = 200
    /\ served.res.body.size = MaxBytes
    /\ served.res.body.duration = JsNumber(0)

(***************************************************************************)
(* C25.  The two stream routes answer alike.  For a file of the uploads    *)
(* directory and a file of the processed directory of the same size, and   *)
(* for every Range header (or none), GET /video and GET /processed-video   *)
(* return the same status, the same headers (Content-Range, Content-Length *)
(* among them) and the same bytes of the file; for a name that neither     *)
(* directory holds both return 404.                                        *)
(***************************************************************************)
SameAnswer(a, b) ==
    /\ a.status = b.status
    /\ a.headers = b.headers
    /\ a.sent = b.sent

\* the answer res of one route to the GET req, for the file of its directory
\* own, set against the other route's answer other(name) for the files of
\* the other directory that have the same size
AgreesWith(req, res, own, otherDir, other(_)) ==
    IF existsSync(own, req.name)
    THEN \A f \in DOMAIN otherDir :
             otherDir[f].size = own[req.name].size => SameAnswer(res, other(f))
    ELSE res.status = 404 /\ SameAnswer(res, other(GhostName))

C25_StreamRoutesAgree ==
    [][/\ GetNow("processed-video") =>
              LET viaVideo(f) ==
                      streamRoute("uploads", uploads, f, served'.req.range)
              IN  AgreesWith(served'.req, served'.res, processed, uploads,
                             viaVideo)
       /\ GetNow("video") =>
              LET viaProcessed(g) ==
                      processedVideoRoute(processed, g, served'.req.range)
              IN  AgreesWith(served'.req, served'.res, uploads, processed,
                             viaProcessed)]_vars

\* an upload and an output of the same size, not empty, are stored and the
\* processed route has answered a range request for the output
C25_Witness ==
    /\ existsSync(processed, OutName(1))
    /\ processed[OutName(1)].size > 0
    /\ \E f \in DOMAIN uploads : uploads[f].size = processed[OutName(1)].size
    /\ served.req.route = "processed-video"
    /\ served.req.name = OutName(1)
    /\ served.res.status = 206

(***************************************************************************)
(* C26.  Admission rule.  In the step that hands a job to enqueueJob (the  *)
(* route handler, or the probe callback of a fadeOut request): if          *)
(* activeJobs < MAX_CONCURRENT_JOBS the job is running at the end of that  *)
(* step, activeJobs is one higher, its transform has been invoked and the  *)
(* wait list is untouched; otherwise activeJobs = MAX_CONCURRENT_JOBS, the *)
(* job is appended at the tail of the wait list, no transform is invoked   *)
(* and activeJobs stays.                                                   *)
(***************************************************************************)
EnqueuedNow(j) ==
    phase[j] \in {"none", "probing"} /\ phase'[j] \in {"queued", "running"}

C26_AdmissionRule ==
    [][\A j \in Jobs :
          EnqueuedNow(j) =>
              IF activeJobs < MAX_CONCURRENT_JOBS
              THEN /\ phase'[j] = "running"
                   /\ activeJobs' = activeJobs + 1
                   /\ invoked' = [invoked EXCEPT ![j] = 1]
                   /\ startLog' = Append(startLog, j)
                   /\ jobQueue' = jobQueue
                   /\ waitLog' = waitLog
                   /\ j \notin Range(waitLog)
              ELSE /\ activeJobs = MAX_CONCURRENT_JOBS
                   /\ phase'[j] = "queued"
                   /\ jobQueue' = Append(jobQueue, j)
                   /\ invoked' = invoked
                   /\ invoked[j] = 0
                   /\ startLog' = startLog
                   /\ activeJobs' = activeJobs]_vars

\* the first job was started at once and never waited; a later one is in
\* the wait list, not started, and a fadeOut request is at its probe
C26_Witness ==
    /\ invoked[1] = 1
    /\ 1 \notin Range(waitLog)
    /\ phase[1] = "running"
    /\ \E j \in Range(jobQueue) : phase[j] = "queued" /\ invoked[j] = 0
    /\ \E k \in Jobs : phase[k] = "probing"

(***************************************************************************)
(* C27.  The life of a job.  A request is answered by its handler          *)
(* (rejected), or sent to the probe (fadeOut), or handed to the queue; a   *)
(* job of the queue moves only queued -> running -> done | failed (a job   *)
(* that finds the slot free starts as running).  Its transform is invoked  *)
(* at most once; it is in the wait list exactly while it is queued, so     *)
(* never while running; it leaves the wait list in the very step that      *)
(* starts it; a done or failed job never changes again.                    *)
(***************************************************************************)
Moves ==
    { <<"none", "rejected">>, <<"none", "probing">>, <<"none", "queued">>,
      <<"none", "running">>, <<"probing", "queued">>,
      <<"probing", "running">>, <<"queued", "running">>,
      <<"running", "done">>, <<"running", "failed">> }

Occurrences(q, j) == Cardinality({ i \in 1..Len(q) : q[i] = j })

C27_JobLifecycle ==
    /\ [](\A j \in Jobs :
             /\ invoked[j] <= 1
             /\ invoked[j] = 1 <=> phase[j] \in {"running", "done", "failed"}
             /\ Occurrences(jobQueue, j) =
                    (IF phase[j] = "queued" THEN 1 ELSE 0))
    /\ [][\A j \in Jobs :
             /\ phase'[j] # phase[j] => <<phase[j], phase'[j]>> \in Moves
             /\ (j \in Range(jobQueue) /\ j \notin Range(jobQueue'))
                    <=> (phase[j] = "queued" /\ StartsNow(j))
             /\ StartsNow(j) => phase'[j] = "running"
             /\ phase[j] \in {"done", "failed", "rejected"} =>
                    /\ phase'[j] = phase[j]
                    /\ invoked'[j] = invoked[j]]_vars

\* a job that waited has run and failed, the job that waited behind it is
\* running, and none of them is left in the wait list
C27_Witness ==
    /\ Len(waitLog) >= 2
    /\ phase[waitLog[1]] = "failed"
    /\ phase[waitLog[2]] = "running"
    /\ jobQueue = <<>>

(***************************************************************************)
(* C28.  A job whose engine wrote a line with a failure marker ('Error',   *)
(* 'error', 'Invalid', 'failed') to its error stream is classified as      *)
(* failed: it is never done, and its caller is never answered with         *)
(* success, even if the engine then signals 'end'.                         *)
(***************************************************************************)
MarkerSeen(j) == \E l \in stderrLog[j] : includesMarker(l)

C28_MarkerMeansFailed ==
    \A j \in Jobs :
        MarkerSeen(j) =>
            /\ phase[j] # "done"
            /\ \A i \in 1..Len(resp[j]) : resp[j][i].status # 200

(***************************************************************************)
(* C29.  Within one sweep, a failure to stat or delete one file does not   *)
(* abort the sweep: every other expired file of both directories is        *)
(* deleted by that same sweep, the files that failed stay as they were,    *)
(* and the timer callback runs to its end: both directories are counted,   *)
(* the one-shot timer is spent or the periodic one is due a period later.  *)
(***************************************************************************)
FaultySweep == SweepStep /\ lastSweep'.ioErr # {}

OthersDeleted(before, after, err) ==
    /\ \A f \in DOMAIN before :
           (Old(before, f) /\ f \notin err) => f \notin DOMAIN after
    /\ \A f \in DOMAIN before \cap err : Kept(before, after, f)

C29_SweepSurvivesFileErrors ==
    [][FaultySweep =>
          /\ OthersDeleted(uploads, uploads', lastSweep'.ioErr)
          /\ OthersDeleted(processed, processed', lastSweep'.ioErr)
          /\ lastSweep'.cleanedUploads =
                 Cardinality(DOMAIN uploads \ DOMAIN uploads')
          /\ lastSweep'.cleanedProcessed =
                 Cardinality(DOMAIN processed \ DOMAIN processed')
          /\ (startupDone' # startupDone => nextInterval' = nextInterval)
          /\ (nextInterval' # nextInterval =>
                 /\ nextInterval' = now + CLEANUP_INTERVAL_MS
                 /\ startupDone' = startupDone)]_vars

\* a sweep has just met a failure on an expired upload, which is still
\* there, and has deleted another expired upload and an expired output
C29_Witness ==
    /\ \E f \in lastSweep.ioErr : f \in DOMAIN uploads
    /\ lastSweep.cleanedUploads > 0
    /\ lastSweep.cleanedProcessed > 0

(***************************************************************************)
(* C30.  The queue is work-conserving: whenever the wait list is not       *)
(* empty, the number of running jobs equals MAX_CONCURRENT_JOBS; no job    *)
(* waits while a slot is free.                                             *)
(***************************************************************************)
C30_WorkConserving ==
    /\ jobQueue # <<>> => activeJobs = MAX_CONCURRENT_JOBS
    /\ Waiting # {} => Cardinality(RunningJobs) = MAX_CONCURRENT_JOBS

\* a job has ended while two were waiting: the older of them was started in
\* that same turn and the other still waits, with every slot taken
C30_Witness ==
    /\ jobQueue # <<>>
    /\ Terminal # {}
    /\ \E j \in Range(waitLog) : phase[j] = "running" /\ j \notin Range(jobQueue)
    /\ activeJobs = MAX_CONCURRENT_JOBS

(***************************************************************************)
(* C31.  The input of a job that waits or runs is never deleted by the     *)
(* sweep before the job completes: as long as a job admitted on an         *)
(* existing upload is queued or running, that upload is still in the       *)
(* uploads directory.                                                      *)
(***************************************************************************)
\* the inputs of the jobs of SweepSpec: every request of SweepRequests that
\* was admitted passed existsSync on its filename
JobInputs == { r.filename : r \in SweepRequests }

Pending(j) == phase[j] \in {"queued", "running"}

C31_InputsOutliveJobs ==
    \A j \in Jobs :
        Pending(j) => \A fn \in JobInputs : existsSync(uploads, fn)

(***************************************************************************)
(* C32.  Jobs are handed to enqueueJob in the order their requests         *)
(* arrived (requests are numbered by arrival): in the step that hands job  *)
(* j to enqueueJob, no valid request that arrived before j is still to be  *)
(* handed over, a fadeOut request at its duration probe included.          *)
(***************************************************************************)
AwaitsEnqueue(i) == phase[i] = "probing"

C32_EnqueuedInArrivalOrder ==
    [][\A j \in Jobs :
          EnqueuedNow(j) => \A i \in 1..(j - 1) : ~AwaitsEnqueue(i)]_vars

(***************************************************************************)
(* C33.  The caller of a queued transform job is answered before the       *)
(* job's slot is freed, hence before the next waiting job starts: a job    *)
(* that has left the running state has its one response, and in the step   *)
(* that starts a job every job started before it has been answered.        *)
(***************************************************************************)
Answered(r, j) == Len(r[j]) > 0

FreesSlotNow(j) == phase[j] = "running" /\ phase'[j] # "running"

C33_AnsweredBeforeNextStarts ==
    /\ [](\A j \in Terminal : Answered(resp, j))
    /\ [][\A j \in Jobs :
             /\ FreesSlotNow(j) => Answered(resp', j)
             /\ StartsNow(j) =>
                    \A i \in Started \ {j} : Answered(resp', i)]_vars

\* a job that waited is running; the job whose end freed its slot failed
\* and its caller has the 500 answer
C33_Witness ==
    /\ \E j \in Range(waitLog) : phase[j] = "running"
    /\ \E i \in Range(startLog) :
           /\ phase[i] = "failed"
           /\ Len(resp[i]) = 1
           /\ resp[i][1].status = 500

(***************************************************************************)
(* C34.  A 206 answer to a stream request with a Range header on an        *)
(* existing file of size S has 0 <= start <= end <= S - 1 in its           *)
(* Content-Range and 1 <= Content-Length <= S: an end past the file is     *)
(* clamped to S - 1, and a range with start > end, start >= S or a         *)
(* non-numeric start is not answered 206.                                  *)
(***************************************************************************)
WithinFile(res, S) ==
    LET first == res.headers.ContentRange.first
        last == res.headers.ContentRange.last
        len == res.headers.ContentLength
    IN  /\ ~first.nan /\ ~last.nan /\ ~len.nan
        /\ 0 <= first.val
        /\ first.val <= last.val
        /\ last.val <= S - 1
        /\ 1 <= len.val
        /\ len.val <= S

C34_PartialWithinFile ==
    (/\ served.req.route \in {"video", "processed-video"}
     /\ served.req.range # <<>>
     /\ served.res.status = 206)
        => WithinFile(served.res, Dir(served.res.dir)[served.req.name].size)

(***************************************************************************)
(* C35.  In the drawtext expression of POST /text no field other than text *)
(* adds an option or a filter stage: the expression built from a body has  *)
(* as many options and as many stages as the one built from the body that  *)
(* differs from it only in holding a plain number in the same field.       *)
(***************************************************************************)
\* reading a filter expression: a quote opens or closes a quoted part, a
\* backslash outside quotes takes the next character literally; the
\* separators of the set seps met outside quotes are counted
RECURSIVE Separators(_, _, _)
Separators(s, seps, quoted) ==
    IF s = <<>> THEN 0
    ELSE IF Head(s) = "'" THEN Separators(Tail(s), seps, ~quoted)
    ELSE IF quoted THEN Separators(Tail(s), seps, quoted)
    ELSE IF Head(s) = "\\"
         THEN Separators(SubSeq(s, 3, Len(s)), seps, quoted)
    ELSE (IF Head(s) \in seps THEN 1 ELSE 0)
         + Separators(Tail(s), seps, quoted)

Shape(expr) ==
    [options |-> 1 + Separators(expr, {":"}, FALSE),
     stages |-> 1 + Separators(expr, {",", ";"}, FALSE)]

\* the body with a plain number in every field it defines, text aside
Plain(b) ==
    [f \in DOMAIN b |->
        IF f = "text" \/ b[f] = Undefined THEN b[f] ELSE <<"1">>]

C35_StyleFieldsKeepShape ==
    (built.route = "text" /\ IsCommand(built)) =>
        \A b \in StyledBodies, font \in Fonts :
            (/\ b.text = built.text
             /\ built.videoFilters[1] =
                    drawTextFilter(font, built.escaped, b))
                => Shape(built.videoFilters[1]) =
                       Shape(drawTextFilter(font, built.escaped, Plain(b)))

====
